---------------------------- MODULE Spec2Model ----------------------------
(***************************************************************************)
(* Reward-ledger reconstruction of the Lido SDK (class LidoSDKRewards):    *)
(* getRewardsFromChain and getRewardsFromSubgraph over a small stETH       *)
(* ledger.  The ledger (the chain's event log) is built by the Emit* and   *)
(* MineBlock actions; a call of one of the two operations reads it and     *)
(* leaves its fold and its returned ledger in the state.                   *)
(***************************************************************************)
EXTENDS Integers, Sequences, FiniteSets, TLC

\* ------------------------------------------------------------------ bounds
\* Longest event log of the ledger that is explored.
MaxEvents == 2

\* ------------------------------------------------------- program constants
\* LidoSDKRewards.PRECISION is 10n ** 27n in the source; TLC's integers are
\* 32 bits wide, so the fixed-point denominator is scaled down.  Only the
\* share rate is computed with it.
PRECISION == 100000

\* ----------------------------------------------------------- environment
\* Identities of the addresses that occur on the ledger.
ZeroId == "zero"
AccountId == "account"
OtherId == "other"
WithdrawalQueueId == "withdrawalQueue"

\* An address is a hex string: the identity of the account plus the casing
\* of its hex letters.  The zero address has no letters, so it has only one
\* spelling ("plain").
Checksum(id) == [id |-> id, form |-> IF id = ZeroId THEN "plain" ELSE "checksum"]
Lower(id) == [id |-> id, form |-> IF id = ZeroId THEN "plain" ELSE "lower"]

\* viem's zeroAddress constant.
zeroAddress == Checksum(ZeroId)

\* Share amounts moved by a transfer, and (totalEther, totalShares) pairs a
\* rebase may report.  The ledger starts with Genesis totals.
ShareValues == {100}
RebaseTotals == {<<1100, 10000>>, <<2010, 20000>>}
Genesis == [totalEther |-> 1000, totalShares |-> 10000]

\* The wall clock (milliseconds) when the first call is made: two days after
\* block 0 was mined.
DayMs == 86400000
Epoch == 2 * DayMs

\* Block b is mined BlockSeconds * b seconds after block 0.
BlockSeconds == 43200

\* Chunk sizes (the `step` option) tried by a call.
Steps == {2}

VARIABLES
    log,      \* the ledger's event log, in emission (= chronological) order
    head,     \* number of the block being built
    logIdx,   \* log index of the next event of block `head`
    call,     \* the query of the call that was made, or NoCall
    fold,     \* `rewards` right after events.map(...), before the filters
    result,   \* what the call returned (or the error it ended in)
    now,      \* Date.now(): the wall clock, in milliseconds
    io,       \* the requests the call has issued to its collaborators, in order
    prev,     \* what the previous invocation of the same query returned
    settled,  \* the sub-requests of Promise.all that have completed, with their answers
    queue,    \* the withdrawal queue: the status of each request of the account, by id
    info,     \* the call of a withdrawal-requests utility: its position and what it has fetched
    state,    \* the ReducerState of the Action component
    runs      \* the runs of Action.startLoading: what each has dispatched, and whether it awaits

session == <<now, io, prev, settled>>
rewardsCall == <<log, head, logIdx, call, fold, result>>
withdrawals == <<queue, info>>
playground == <<state, runs>>
vars == <<log, head, logIdx, call, fold, result, now, io, prev, settled, queue, info, state, runs>>

NoCall == [path |-> "none"]
NoResult == [status |-> "none"]
NoAnswers == <<>>

\* ---------------------------------------------------------- arithmetic
\* bigint division truncates toward zero.
TruncDiv(a, b) == IF a >= 0 THEN a \div b ELSE -((-a) \div b)

sharesToSteth(shares, totalEther, totalShares, precision) ==
    IF totalShares > 0 THEN TruncDiv(shares * totalEther, totalShares) ELSE 0

calcShareRate(totalEther, totalShares, precision) ==
    IF totalShares > 0 THEN TruncDiv(totalEther * precision, totalShares) ELSE 0

\* addressEqual compares two addresses regardless of the casing.
addressEqual(a, b) == a.id = b.id

\* `===` on two address strings.
StrictEq(a, b) == a = b

\* ------------------------------------------------------------ the ledger
\* A log as viem decodes it: addresses are checksummed.
TransferSharesLog(from, to, sharesValue, blockNumber, logIndex) ==
    [eventName |-> "TransferShares",
     args |-> [from |-> Checksum(from), to |-> Checksum(to),
               sharesValue |-> sharesValue],
     blockNumber |-> blockNumber, logIndex |-> logIndex]

TokenRebasedLog(postTotalEther, postTotalShares, blockNumber, logIndex) ==
    [eventName |-> "TokenRebased",
     args |-> [postTotalEther |-> postTotalEther,
               postTotalShares |-> postTotalShares],
     blockNumber |-> blockNumber, logIndex |-> logIndex]

\* Net share change of the account `id` caused by one log.
ShareDelta(e, id) ==
    IF e.eventName /= "TransferShares" THEN 0
    ELSE (IF e.args.to.id = id THEN e.args.sharesValue ELSE 0)
         - (IF e.args.from.id = id THEN e.args.sharesValue ELSE 0)

RECURSIVE SharesAfter(_, _)
\* Shares of the account `id` after all the logs of lg (nobody holds shares
\* at genesis).
SharesAfter(lg, id) ==
    IF lg = <<>> THEN 0
    ELSE SharesAfter(SubSeq(lg, 1, Len(lg) - 1), id) + ShareDelta(lg[Len(lg)], id)

RECURSIVE TotalsAfter(_)
\* The (totalEther, totalShares) pair after all the logs of lg: that of the
\* last rebase (the effect of mints and burns on the totals is left out).
TotalsAfter(lg) ==
    IF lg = <<>> THEN Genesis
    ELSE LET e == lg[Len(lg)]
         IN IF e.eventName = "TokenRebased"
            THEN [totalEther |-> e.args.postTotalEther,
                  totalShares |-> e.args.postTotalShares]
            ELSE TotalsAfter(SubSeq(lg, 1, Len(lg) - 1))

\* The logs of lg up to and including block blockNumber.
UpToBlock(lg, blockNumber) ==
    SelectSeq(lg, LAMBDA e : e.blockNumber <= blockNumber)

\* Historical reads of the stETH contract.
sharesOf(lg, address, blockNumber) ==
    SharesAfter(UpToBlock(lg, blockNumber), address.id)
getTotalPooledEther(lg, blockNumber) ==
    TotalsAfter(UpToBlock(lg, blockNumber)).totalEther
getTotalShares(lg, blockNumber) ==
    TotalsAfter(UpToBlock(lg, blockNumber)).totalShares

\* getEvents.TransferShares / getEvents.TokenRebased: the node matches the
\* indexed address topics (bytes, so no casing) and the block range, and
\* returns the logs in chain order.
getEventsTransferSharesFrom(lg, address, fromBlock, toBlock) ==
    SelectSeq(lg, LAMBDA e : /\ e.eventName = "TransferShares"
                             /\ e.args.from.id = address.id
                             /\ fromBlock <= e.blockNumber
                             /\ e.blockNumber <= toBlock)
getEventsTransferSharesTo(lg, address, fromBlock, toBlock) ==
    SelectSeq(lg, LAMBDA e : /\ e.eventName = "TransferShares"
                             /\ e.args.to.id = address.id
                             /\ fromBlock <= e.blockNumber
                             /\ e.blockNumber <= toBlock)
getEventsTokenRebased(lg, fromBlock, toBlock) ==
    SelectSeq(lg, LAMBDA e : /\ e.eventName = "TokenRebased"
                             /\ fromBlock <= e.blockNumber
                             /\ e.blockNumber <= toBlock)

\* requestWithBlockStep: the range is cut into chunks of `step` blocks, one
\* request per chunk, the answers concatenated in chunk order.  `request`
\* is the callback, as the function from a chunk <<from, to>> to its answer.
requestWithBlockStep(step, fromBlock, toBlock, request) ==
    LET n == IF toBlock < fromBlock THEN 0 ELSE (toBlock - fromBlock) \div step + 1
        Upper(i) == IF fromBlock + i * step - 1 > toBlock
                    THEN toBlock ELSE fromBlock + i * step - 1
        chunks[i \in 0..n] ==
            IF i = 0 THEN <<>>
            ELSE chunks[i - 1] \o request[<<fromBlock + (i - 1) * step, Upper(i)>>]
    IN chunks[n]

\* The chunks a callback may be asked for.
Chunks(fromBlock, toBlock) == (fromBlock..toBlock) \X (fromBlock..toBlock)

\* EARLIEST_TOKEN_REBASED_EVENT[chainId]: the first block of the ledger.
earliestRebaseEventBlock == 1

\* The withdrawal-queue address as the locator contract read returns it.
contractAddressWithdrawalQueue == Checksum(WithdrawalQueueId)

\* ------------------------------------------------------------ post-filters
IsRebase(r) == r.type = "rebase"
IsZeroRebase(r) == r.type = "rebase" /\ r.change = 0

\* Variant of FilterOnlyRebases with the polarity the flag's name suggests.
FilterOnlyRebases_Inverted(rewards, includeOnlyRebases) ==
    IF includeOnlyRebases THEN SelectSeq(rewards, IsRebase) ELSE rewards

\* if (!includeOnlyRebases) rewards = rewards.filter(r => r.type === 'rebase')
FilterOnlyRebases(rewards, includeOnlyRebases) ==
    IF ~includeOnlyRebases THEN SelectSeq(rewards, IsRebase) ELSE rewards

\* Variant of FilterZeroRebases that also drops the rebases of negative
\* change.
FilterZeroRebases_DropsLosses(rewards, includeZeroRebases) ==
    IF ~includeZeroRebases
    THEN SelectSeq(rewards, LAMBDA r : ~(r.type = "rebase" /\ r.change <= 0))
    ELSE rewards

\* Variant of FilterZeroRebases whose predicate looks at the whole sequence:
\* zero rebases are dropped only when the sequence holds a transfer record.
FilterZeroRebases_WhenMixed(rewards, includeZeroRebases) ==
    IF ~includeZeroRebases /\ (\E i \in 1..Len(rewards) : ~IsRebase(rewards[i]))
    THEN SelectSeq(rewards, LAMBDA r : ~IsZeroRebase(r))
    ELSE rewards

\* if (!includeZeroRebases)
\*   rewards = rewards.filter(r => !(r.type === 'rebase' && r.change === 0n))
FilterZeroRebases(rewards, includeZeroRebases) ==
    IF ~includeZeroRebases
    THEN SelectSeq(rewards, LAMBDA r : ~IsZeroRebase(r))
    ELSE rewards

\* --------------------------------------------------- getRewardsFromChain
\* Variant of ChainCompare that does not look at the log index.
ChainCompare_BlockOnly(event1, event2) ==
    LET block == event1.blockNumber - event2.blockNumber
    IN IF block = 0 THEN 0 ELSE IF block > 0 THEN 1 ELSE -1

\* events.sort comparator of the chain path.
ChainCompare(event1, event2) ==
    LET block == event1.blockNumber - event2.blockNumber
    IN IF block = 0 THEN event1.logIndex - event2.logIndex
       ELSE IF block > 0 THEN 1 ELSE -1

\* events.sort(...) with this comparator.  Array.prototype.sort is stable:
\* an element goes after every element that does not compare greater.
ChainSort(events) ==
    LET Insert(t, x) ==
            LET k == Cardinality({j \in 1..Len(t) : ChainCompare(t[j], x) <= 0})
            IN SubSeq(t, 1, k) \o <<x>> \o SubSeq(t, k + 1, Len(t))
        ins[i \in 0..Len(events)] ==
            IF i = 0 THEN <<>> ELSE Insert(ins[i - 1], events[i])
    IN ins[Len(events)]


\* getCurrentStethFromShares / getCurrentShareRate of the fold state st.
getCurrentStethFromShares(st, shares) ==
    sharesToSteth(shares, st.currentTotalEther, st.currentTotalShares, PRECISION)
getCurrentShareRate(st) ==
    calcShareRate(st.currentTotalEther, st.currentTotalShares, PRECISION)

\* Variant of ChainTransferReward that adds the shares of an outgoing
\* transfer to the balance.
ChainTransferReward_SignSlip(st, event, address, withdrawalQueueAddress) ==
    LET from == event.args.from
        to == event.args.to
        sharesValue == event.args.sharesValue
        incoming == StrictEq(to, address)
        balanceShares == st.prevSharesBalance + sharesValue
        changeShares == IF incoming THEN sharesValue ELSE -sharesValue
    IN [type |-> IF incoming
                 THEN (IF StrictEq(from, zeroAddress) THEN "submit" ELSE "transfer_in")
                 ELSE (IF StrictEq(to, withdrawalQueueAddress)
                       THEN "withdrawal" ELSE "transfer_out"),
        balanceShares |-> balanceShares,
        changeShares |-> changeShares,
        change |-> getCurrentStethFromShares(st, changeShares),
        balance |-> getCurrentStethFromShares(st, balanceShares),
        shareRate |-> st.shareRate,
        originalEvent |-> event]

\* The record of a TransferShares event, st being the fold state before it.
ChainTransferReward(st, event, address, withdrawalQueueAddress) ==
    LET from == event.args.from
        to == event.args.to
        sharesValue == event.args.sharesValue
        incoming == StrictEq(to, address)
        type == IF incoming
                THEN (IF StrictEq(from, zeroAddress) THEN "submit" ELSE "transfer_in")
                ELSE (IF StrictEq(to, withdrawalQueueAddress)
                      THEN "withdrawal" ELSE "transfer_out")
        balanceShares == IF incoming THEN st.prevSharesBalance + sharesValue
                         ELSE st.prevSharesBalance - sharesValue
        changeShares == IF incoming THEN sharesValue ELSE -sharesValue
    IN [type |-> type,
        balanceShares |-> balanceShares,
        changeShares |-> changeShares,
        change |-> getCurrentStethFromShares(st, changeShares),
        balance |-> getCurrentStethFromShares(st, balanceShares),
        shareRate |-> st.shareRate,
        originalEvent |-> event]

\* Variant of ChainRebaseReward that takes the old balance after the totals
\* were updated.
ChainRebaseReward_LateOldBalance(st, event) ==
    LET post == [st EXCEPT !.currentTotalEther = event.args.postTotalEther,
                           !.currentTotalShares = event.args.postTotalShares]
        oldBalance == getCurrentStethFromShares(post, st.prevSharesBalance)
        newBalance == getCurrentStethFromShares(post, st.prevSharesBalance)
    IN [type |-> "rebase",
        change |-> newBalance - oldBalance,
        changeShares |-> 0,
        balance |-> newBalance,
        balanceShares |-> st.prevSharesBalance,
        shareRate |-> getCurrentShareRate(post),
        originalEvent |-> event]

\* Variant of ChainRebaseReward that converts the change of the total ether
\* instead of subtracting two converted balances.
ChainRebaseReward_OnDelta(st, event) ==
    LET post == [st EXCEPT !.currentTotalEther = event.args.postTotalEther,
                           !.currentTotalShares = event.args.postTotalShares]
        delta == [post EXCEPT !.currentTotalEther =
                                  event.args.postTotalEther - st.currentTotalEther]
    IN [type |-> "rebase",
        change |-> getCurrentStethFromShares(delta, st.prevSharesBalance),
        changeShares |-> 0,
        balance |-> getCurrentStethFromShares(post, st.prevSharesBalance),
        balanceShares |-> st.prevSharesBalance,
        shareRate |-> getCurrentShareRate(post),
        originalEvent |-> event]

\* The record of a TokenRebased event, st being the fold state before it.
ChainRebaseReward(st, event) ==
    LET oldBalance == getCurrentStethFromShares(st, st.prevSharesBalance)
        post == [st EXCEPT !.currentTotalEther = event.args.postTotalEther,
                           !.currentTotalShares = event.args.postTotalShares]
        newBalance == getCurrentStethFromShares(post, st.prevSharesBalance)
    IN [type |-> "rebase",
        change |-> newBalance - oldBalance,
        changeShares |-> 0,
        balance |-> newBalance,
        balanceShares |-> st.prevSharesBalance,
        shareRate |-> getCurrentShareRate(post),
        originalEvent |-> event]

\* Variant of invariant that lets the computation go on.
invariant_Ignored(condition, st) == st

\* invariant(condition, message): a false condition aborts the computation
\* in progress, whose state is st.
invariant(condition, st) ==
    IF condition THEN st ELSE [st EXCEPT !.failed = TRUE]

\* Variant of ChainStep that does not add a rebase's change to totalRewards.
ChainStep_NoAccumulate(st, event, address, withdrawalQueueAddress) ==
    IF st.failed THEN st
    ELSE IF event.eventName = "TransferShares" THEN
        LET r == ChainTransferReward(st, event, address, withdrawalQueueAddress)
        IN [st EXCEPT !.rewards = Append(@, r),
                      !.prevSharesBalance = r.balanceShares]
    ELSE IF event.eventName = "TokenRebased" THEN
        LET r == ChainRebaseReward(st, event)
        IN [st EXCEPT !.rewards = Append(@, r),
                      !.currentTotalEther = event.args.postTotalEther,
                      !.currentTotalShares = event.args.postTotalShares,
                      !.shareRate = r.shareRate]
    ELSE [st EXCEPT !.failed = TRUE]

\* Variant of ChainStep that keeps the old shareRate and totals after a
\* rebase.
ChainStep_StaleRate(st, event, address, withdrawalQueueAddress) ==
    IF st.failed THEN st
    ELSE IF event.eventName = "TransferShares" THEN
        LET r == ChainTransferReward(st, event, address, withdrawalQueueAddress)
        IN [st EXCEPT !.rewards = Append(@, r),
                      !.prevSharesBalance = r.balanceShares]
    ELSE IF event.eventName = "TokenRebased" THEN
        LET r == ChainRebaseReward(st, event)
        IN [st EXCEPT !.rewards = Append(@, r),
                      !.totalRewards = @ + r.change]
    ELSE [st EXCEPT !.failed = TRUE]

\* One iteration of events.map: the record is pushed and the closure's
\* variables are updated; an event of another kind fails the invariant.
ChainStep(st, event, address, withdrawalQueueAddress) ==
    IF st.failed THEN st
    ELSE IF event.eventName = "TransferShares" THEN
        LET r == ChainTransferReward(st, event, address, withdrawalQueueAddress)
        IN [st EXCEPT !.rewards = Append(@, r),
                      !.prevSharesBalance = r.balanceShares]
    ELSE IF event.eventName = "TokenRebased" THEN
        LET r == ChainRebaseReward(st, event)
        IN [st EXCEPT !.rewards = Append(@, r),
                      !.currentTotalEther = event.args.postTotalEther,
                      !.currentTotalShares = event.args.postTotalShares,
                      !.shareRate = r.shareRate,
                      !.totalRewards = @ + r.change]
    ELSE invariant(FALSE, st)

\* events.map over the sorted events, from the base state.
ChainFold(events, address, withdrawalQueueAddress, base) ==
    LET st[i \in 0..Len(events)] ==
            IF i = 0 THEN base
            ELSE ChainStep(st[i - 1], events[i], address, withdrawalQueueAddress)
    IN st[Len(events)]

\* The six sub-requests of the second Promise.all of getRewardsFromChain.
ChainRequests ==
    <<"sharesOf", "getTotalPooledEther", "getTotalShares",
      "TransferShares(from)", "TransferShares(to)", "TokenRebased">>

\* The answer of one of the six sub-requests: a read of the base state at
\* preBlock, or a chunked event stream.
ChainAnswer(name, lg, address, fromBlock, toBlock, step) ==
    LET preBlock == IF fromBlock = 0 THEN 0 ELSE fromBlock - 1
    IN CASE name = "sharesOf" -> sharesOf(lg, address, preBlock)
         [] name = "getTotalPooledEther" -> getTotalPooledEther(lg, preBlock)
         [] name = "getTotalShares" -> getTotalShares(lg, preBlock)
         [] name = "TransferShares(from)" ->
                requestWithBlockStep(step, fromBlock, toBlock,
                    [c \in Chunks(fromBlock, toBlock) |->
                        getEventsTransferSharesFrom(lg, address, c[1], c[2])])
         [] name = "TransferShares(to)" ->
                requestWithBlockStep(step, fromBlock, toBlock,
                    [c \in Chunks(fromBlock, toBlock) |->
                        getEventsTransferSharesTo(lg, address, c[1], c[2])])
         [] name = "TokenRebased" ->
                requestWithBlockStep(step, fromBlock, toBlock,
                    [c \in Chunks(fromBlock, toBlock) |->
                        getEventsTokenRebased(lg, c[1], c[2])])

\* The answers of the six sub-requests, by name.
ChainAnswers(lg, address, fromBlock, toBlock, step) ==
    [name \in {ChainRequests[i] : i \in 1..Len(ChainRequests)} |->
        ChainAnswer(name, lg, address, fromBlock, toBlock, step)]

\* The merged events of the chain path: the three streams concatenated
\* (incoming, outgoing, rebases) and sorted.
ChainEvents(transferInEvents, transferOutEvents, rebaseEvents) ==
    ChainSort(transferInEvents \o transferOutEvents \o rebaseEvents)

\* getRewardsFromChain from the destructuring of the six answers to the end
\* of events.map.
ChainRunOn(answer, address) ==
    LET withdrawalQueueAddress == contractAddressWithdrawalQueue
        baseBalanceShares == answer["sharesOf"]
        baseTotalEther == answer["getTotalPooledEther"]
        baseTotalShares == answer["getTotalShares"]
        events == ChainEvents(answer["TransferShares(to)"],
                              answer["TransferShares(from)"],
                              answer["TokenRebased"])
        base0 == [rewards |-> <<>>, totalRewards |-> 0, shareRate |-> 0,
                  prevSharesBalance |-> baseBalanceShares,
                  currentTotalEther |-> baseTotalEther,
                  currentTotalShares |-> baseTotalShares,
                  failed |-> FALSE]
        baseShareRate == getCurrentShareRate(base0)
    IN [baseBalanceShares |-> baseBalanceShares,
        baseBalance |-> getCurrentStethFromShares(base0, baseBalanceShares),
        baseShareRate |-> baseShareRate,
        final |-> ChainFold(events, address, withdrawalQueueAddress,
                            [base0 EXCEPT !.shareRate = baseShareRate])]

\* getRewardsFromChain up to the end of events.map, on the ledger lg.
ChainRun(lg, address, fromBlock, toBlock, step) ==
    ChainRunOn(ChainAnswers(lg, address, fromBlock, toBlock, step), address)


\* this.core.error({code: 'NOT_SUPPORTED'}) is called as a statement, with no
\* throw in front of it, and its body is not part of the sources: either it
\* raises the error itself (TRUE) or it hands the error object back and the
\* method goes on (FALSE).
CoreErrorRaises == BOOLEAN

\* What getRewardsFromChain returns (or the error it ends in) after the run:
\* the chain path filters by includeOnlyRebases, then by includeZeroRebases.
ChainReturn(run, fromBlock, toBlock, raises, includeZeroRebases, includeOnlyRebases) ==
    IF fromBlock < earliestRebaseEventBlock /\ raises
    THEN [status |-> "NOT_SUPPORTED"]
    ELSE IF run.final.failed THEN [status |-> "INVARIANT"]
    ELSE [status |-> "ok",
          rewards |-> FilterZeroRebases(
                          FilterOnlyRebases(run.final.rewards, includeOnlyRebases),
                          includeZeroRebases),
          baseBalanceShares |-> run.baseBalanceShares,
          baseShareRate |-> run.baseShareRate,
          baseBalance |-> run.baseBalance,
          totalRewards |-> run.final.totalRewards,
          fromBlock |-> fromBlock,
          toBlock |-> toBlock]

\* ------------------------------------------------------------ the subgraph
\* The query service answers with JSON: every number is a decimal string,
\* here the sequence of its digits.
RECURSIVE Dec(_)
Dec(n) == IF n < 10 THEN <<n>> ELSE Append(Dec(n \div 10), n % 10)

RECURSIVE BigInt(_)
\* BigInt(string) / Number(string) of a decimal string.
BigInt(str) ==
    IF Len(str) = 0 THEN 0
    ELSE 10 * BigInt(SubSeq(str, 1, Len(str) - 1)) + str[Len(str)]

\* The entity the indexer stores for the i-th log of lg.  Addresses are
\* stored in lower case.  Share and asset balances are those of the queried
\* account (the other holders' balances are not followed and read 0); the
\* indexer debits the sender before it credits the recipient.
SubgraphEntity(lg, i) ==
    LET e == lg[i]
        before == SubSeq(lg, 1, i - 1)
        totals == TotalsAfter(before)
        Steth(shares) ==
            sharesToSteth(shares, totals.totalEther, totals.totalShares, PRECISION)
    IN IF e.eventName = "TransferShares" THEN
           LET shares == e.args.sharesValue
               fromBefore == IF e.args.from.id = AccountId
                             THEN SharesAfter(before, AccountId) ELSE shares
               afterDecrease == fromBefore - shares
               toBefore == IF e.args.to.id /= AccountId THEN 0
                           ELSE IF e.args.from.id = AccountId THEN afterDecrease
                           ELSE SharesAfter(before, AccountId)
               afterIncrease == toBefore + shares
           IN [from |-> Lower(e.args.from.id),
               to |-> Lower(e.args.to.id),
               shares |-> Dec(shares),
               value |-> Dec(Steth(shares)),
               sharesAfterIncrease |-> Dec(afterIncrease),
               sharesAfterDecrease |-> Dec(afterDecrease),
               balanceAfterIncrease |-> Dec(Steth(afterIncrease)),
               balanceAfterDecrease |-> Dec(Steth(afterDecrease)),
               totalPooledEther |-> Dec(totals.totalEther),
               totalShares |-> Dec(totals.totalShares),
               block |-> Dec(e.blockNumber),
               logIndex |-> Dec(e.logIndex)]
       ELSE [apr |-> <<>>,
             totalPooledEtherAfter |-> Dec(e.args.postTotalEther),
             totalSharesAfter |-> Dec(e.args.postTotalShares),
             block |-> Dec(e.blockNumber),
             logIndex |-> Dec(e.logIndex)]

\* 'value' in event / 'apr' in event
IsTransferEntity(event) == "value" \in DOMAIN event
IsRebaseEntity(event) == "apr" \in DOMAIN event

\* The entities the service has ingested, in ledger order.
Indexed(lg, lastIndexedBlock) ==
    LET all == [i \in 1..Len(lg) |-> SubgraphEntity(lg, i)]
    IN SelectSeq(all, LAMBDA en : BigInt(en.block) <= lastIndexedBlock)

\* A paginated query: pages of `step` entities, concatenated.
Paginate(entities, step) ==
    LET n == (Len(entities) + step - 1) \div step
        Upper(i) == IF i * step > Len(entities) THEN Len(entities) ELSE i * step
        pages[i \in 0..n] ==
            IF i = 0 THEN <<>>
            ELSE pages[i - 1] \o SubSeq(entities, (i - 1) * step + 1, Upper(i))
    IN pages[n]

InvolvesAddress(en, address) ==
    addressEqual(en.to, address) \/ addressEqual(en.from, address)

\* getTransfers: the transfer entities of [fromBlock, toBlock] that involve
\* the address.
getTransfers(lg, lastIndexedBlock, address, fromBlock, toBlock, step) ==
    Paginate(SelectSeq(Indexed(lg, lastIndexedBlock),
                       LAMBDA en : /\ IsTransferEntity(en)
                                   /\ InvolvesAddress(en, address)
                                   /\ fromBlock <= BigInt(en.block)
                                   /\ BigInt(en.block) <= toBlock),
             step)

\* getTotalRewards: the rebase entities of [fromBlock, toBlock].
getTotalRewards(lg, lastIndexedBlock, fromBlock, toBlock, step) ==
    Paginate(SelectSeq(Indexed(lg, lastIndexedBlock),
                       LAMBDA en : /\ IsRebaseEntity(en)
                                   /\ fromBlock <= BigInt(en.block)
                                   /\ BigInt(en.block) <= toBlock),
             step)

\* The last element of a sequence as a sequence of length 0 or 1 (an absent
\* entity is the empty sequence).
LastOf(s) == IF s = <<>> THEN <<>> ELSE <<s[Len(s)]>>

\* getInitialData: the most recent transfer entity of the address and the
\* most recent rebase entity strictly before `block`.
getInitialData(lg, lastIndexedBlock, address, block) ==
    LET earlier == SelectSeq(Indexed(lg, lastIndexedBlock),
                             LAMBDA en : BigInt(en.block) < block)
    IN [transfer |-> LastOf(SelectSeq(earlier,
                                LAMBDA en : /\ IsTransferEntity(en)
                                            /\ InvolvesAddress(en, address))),
        rebase |-> LastOf(SelectSeq(earlier, IsRebaseEntity))]

\* ------------------------------------------------ getRewardsFromSubgraph
\* events.sort comparator of the subgraph path.
SubgraphCompare(event1, event2) ==
    LET block == BigInt(event1.block) - BigInt(event2.block)
    IN IF block = 0 THEN BigInt(event1.logIndex) - BigInt(event2.logIndex)
       ELSE IF block > 0 THEN 1 ELSE -1

\* events.sort(...) with this comparator.  Array.prototype.sort is stable:
\* an element goes after every element that does not compare greater.
SubgraphSort(events) ==
    LET Insert(t, x) ==
            LET k == Cardinality({j \in 1..Len(t) : SubgraphCompare(t[j], x) <= 0})
            IN SubSeq(t, 1, k) \o <<x>> \o SubSeq(t, k + 1, Len(t))
        ins[i \in 0..Len(events)] ==
            IF i = 0 THEN <<>> ELSE Insert(ins[i - 1], events[i])
    IN ins[Len(events)]


\* prevBalanceShares / prevBalance / baseShareRate after the two
\* "last ... before main query" blocks.
SubgraphBase(initial, address) ==
    LET hasTransfer == initial.transfer /= <<>>
        t == initial.transfer[1]
        toMe == hasTransfer /\ addressEqual(t.to, address)
        fromMe == hasTransfer /\ ~toMe /\ addressEqual(t.from, address)
        shares0 == IF toMe THEN BigInt(t.sharesAfterIncrease)
                   ELSE IF fromMe THEN BigInt(t.sharesAfterDecrease) ELSE 0
        balance0 == IF toMe THEN BigInt(t.balanceAfterIncrease)
                    ELSE IF fromMe THEN BigInt(t.balanceAfterDecrease) ELSE 0
        hasRebase == initial.rebase /= <<>>
        totalEther == BigInt(initial.rebase[1].totalPooledEtherAfter)
        totalShares == BigInt(initial.rebase[1].totalSharesAfter)
    IN [prevBalanceShares |-> shares0,
        prevBalance |-> IF hasRebase
                        THEN sharesToSteth(shares0, totalEther, totalShares, PRECISION)
                        ELSE balance0,
        baseShareRate |-> IF hasRebase
                          THEN calcShareRate(totalEther, totalShares, PRECISION)
                          ELSE 0]

\* The record of a transfer entity.
SubgraphTransferReward(event, address, withdrawalQueueAddress) ==
    LET incoming == addressEqual(event.to, address)
    IN [type |-> IF incoming
                 THEN (IF StrictEq(event.from, zeroAddress)
                       THEN "submit" ELSE "transfer_in")
                 ELSE (IF addressEqual(event.to, withdrawalQueueAddress)
                       THEN "withdrawal" ELSE "transfer_out"),
        balanceShares |-> IF incoming THEN BigInt(event.sharesAfterIncrease)
                          ELSE BigInt(event.sharesAfterDecrease),
        changeShares |-> IF incoming THEN BigInt(event.shares)
                         ELSE -BigInt(event.shares),
        change |-> IF incoming THEN BigInt(event.value) ELSE -BigInt(event.value),
        balance |-> IF incoming THEN BigInt(event.balanceAfterIncrease)
                    ELSE BigInt(event.balanceAfterDecrease),
        shareRate |-> calcShareRate(BigInt(event.totalPooledEther),
                                    BigInt(event.totalShares), PRECISION),
        originalEvent |-> event]

\* Variant of SubgraphRebaseReward whose change is the new balance itself.
SubgraphRebaseReward_ChangeAsBalance(st, event) ==
    LET totalEther == BigInt(event.totalPooledEtherAfter)
        totalShares == BigInt(event.totalSharesAfter)
        newBalance == sharesToSteth(st.prevBalanceShares, totalEther,
                                    totalShares, PRECISION)
    IN [type |-> "rebase",
        change |-> newBalance,
        changeShares |-> 0,
        balance |-> newBalance,
        balanceShares |-> st.prevBalanceShares,
        shareRate |-> calcShareRate(totalEther, totalShares, PRECISION),
        originalEvent |-> event]

\* The record of a rebase entity, st being the fold state before it.
SubgraphRebaseReward(st, event) ==
    LET totalEther == BigInt(event.totalPooledEtherAfter)
        totalShares == BigInt(event.totalSharesAfter)
        newBalance == sharesToSteth(st.prevBalanceShares, totalEther,
                                    totalShares, PRECISION)
    IN [type |-> "rebase",
        change |-> newBalance - st.prevBalance,
        changeShares |-> 0,
        balance |-> newBalance,
        balanceShares |-> st.prevBalanceShares,
        shareRate |-> calcShareRate(totalEther, totalShares, PRECISION),
        originalEvent |-> event]

\* One iteration of events.map of the subgraph path.
SubgraphStep(st, event, address, withdrawalQueueAddress) ==
    IF st.failed THEN st
    ELSE IF IsTransferEntity(event) THEN
        LET r == SubgraphTransferReward(event, address, withdrawalQueueAddress)
        IN [st EXCEPT !.rewards = Append(@, r),
                      !.prevBalance = r.balance,
                      !.prevBalanceShares = r.balanceShares]
    ELSE IF IsRebaseEntity(event) THEN
        LET r == SubgraphRebaseReward(st, event)
        IN [st EXCEPT !.rewards = Append(@, r),
                      !.totalRewards = @ + r.change,
                      !.prevBalance = r.balance]
    ELSE invariant(FALSE, st)

SubgraphFold(events, address, withdrawalQueueAddress, base) ==
    LET st[i \in 0..Len(events)] ==
            IF i = 0 THEN base
            ELSE SubgraphStep(st[i - 1], events[i], address, withdrawalQueueAddress)
    IN st[Len(events)]

\* The merged events of the subgraph path: rebases, then transfers, sorted.
SubgraphEvents(transfers, rebases) == SubgraphSort(rebases \o transfers)

\* Variant of CapToBlock that keeps the requested toBlock.
CapToBlock_Uncapped(lastIndexedBlock, toBlock) == toBlock

\* lastIndexedBlock < toBlock ? lastIndexedBlock : toBlock
CapToBlock(lastIndexedBlock, toBlock) ==
    IF lastIndexedBlock < toBlock THEN lastIndexedBlock ELSE toBlock

\* The answers of the three queries of getRewardsFromSubgraph.
SubgraphAnswers(lg, lastIndexedBlock, address, fromBlock, toBlock, step) ==
    LET cappedToBlock == CapToBlock(lastIndexedBlock, toBlock)
        preBlock == IF fromBlock = 0 THEN 0 ELSE fromBlock - 1
    IN [transfers |-> getTransfers(lg, lastIndexedBlock, address, fromBlock,
                                   cappedToBlock, step),
        rebases |-> getTotalRewards(lg, lastIndexedBlock, fromBlock,
                                    cappedToBlock, step),
        initial |-> getInitialData(lg, lastIndexedBlock, address, preBlock)]

\* getRewardsFromSubgraph from the destructuring of the three answers to the
\* end of events.map.
SubgraphRunOn(answer, lastIndexedBlock, address, toBlock) ==
    LET withdrawalQueueAddress == contractAddressWithdrawalQueue
        events == SubgraphEvents(answer.transfers, answer.rebases)
        base == SubgraphBase(answer.initial, address)
    IN [baseBalance |-> base.prevBalance,
        baseBalanceShares |-> base.prevBalanceShares,
        baseShareRate |-> base.baseShareRate,
        cappedToBlock |-> CapToBlock(lastIndexedBlock, toBlock),
        final |-> SubgraphFold(events, address, withdrawalQueueAddress,
                               [rewards |-> <<>>, totalRewards |-> 0,
                                prevBalance |-> base.prevBalance,
                                prevBalanceShares |-> base.prevBalanceShares,
                                failed |-> FALSE])]

\* getRewardsFromSubgraph up to the end of events.map, the service having
\* ingested the ledger up to lastIndexedBlock.
SubgraphRun(lg, lastIndexedBlock, address, fromBlock, toBlock, step) ==
    SubgraphRunOn(SubgraphAnswers(lg, lastIndexedBlock, address, fromBlock,
                                  toBlock, step),
                  lastIndexedBlock, address, toBlock)

\* What getRewardsFromSubgraph returns after the run: the subgraph path
\* filters by includeZeroRebases, then by includeOnlyRebases.
SubgraphReturn(run, lastIndexedBlock, fromBlock, includeZeroRebases, includeOnlyRebases) ==
    IF run.final.failed THEN [status |-> "INVARIANT"]
    ELSE [status |-> "ok",
          rewards |-> FilterOnlyRebases(
                          FilterZeroRebases(run.final.rewards, includeZeroRebases),
                          includeOnlyRebases),
          baseBalance |-> run.baseBalance,
          lastIndexedBlock |-> lastIndexedBlock,
          baseBalanceShares |-> run.baseBalanceShares,
          totalRewards |-> run.final.totalRewards,
          baseShareRate |-> run.baseShareRate,
          fromBlock |-> fromBlock,
          toBlock |-> run.cappedToBlock]

\* ------------------------------------------------------------- the system
\* The ledger's history before the first TokenRebased block: nothing, or a
\* mint of 100 shares to the account in block 0.
PreHistory == {<<>>, <<TransferSharesLog(ZeroId, AccountId, 100, 0, 0)>>}

\* Number of logs emitted since block earliestRebaseEventBlock.
Emitted(lg) == Len(SelectSeq(lg, LAMBDA e : e.blockNumber >= earliestRebaseEventBlock))

\* No withdrawal request exists and no withdrawal-requests utility was called.
NoInfo == [method |-> "none"]
InitWithdrawals ==
    /\ queue = <<>>
    /\ info = NoInfo

\* useReducer(reducer, { error: undefined, result: undefined, loading: false });
\* an undefined field is the empty sequence.
InitialState == [error |-> <<>>, result |-> <<>>, loading |-> FALSE]
InitPlayground ==
    /\ state = InitialState
    /\ runs = <<>>

\* Before any staged call: the clock reads Epoch, nothing was requested and
\* nothing is in flight; the withdrawal utilities and the playground are
\* untouched.
InitSession ==
    /\ now = Epoch
    /\ io = <<>>
    /\ prev = NoResult
    /\ settled = NoAnswers
    /\ InitWithdrawals
    /\ InitPlayground

Init ==
    /\ log \in PreHistory
    /\ head = earliestRebaseEventBlock
    /\ logIdx = 0
    /\ call = NoCall
    /\ fold = <<>>
    /\ result = NoResult
    /\ InitSession

\* The transfers the ledger can emit: a mint to the account, a transfer
\* between the account and another holder, a withdrawal request of the
\* account, and a transfer of the account to itself.
TransferPairs ==
    {<<ZeroId, AccountId>>, <<OtherId, AccountId>>, <<AccountId, OtherId>>,
     <<AccountId, WithdrawalQueueId>>, <<AccountId, AccountId>>}

\* The stETH contract emits TransferShares(from, to, sharesValue); the
\* account cannot send more shares than it holds.
EmitTransferShares(from, to, sharesValue) ==
    /\ call = NoCall
    /\ Emitted(log) < MaxEvents
    /\ from = AccountId => SharesAfter(log, AccountId) >= sharesValue
    /\ log' = Append(log, TransferSharesLog(from, to, sharesValue, head, logIdx))
    /\ logIdx' = logIdx + 1
    /\ UNCHANGED <<head, call, fold, result>>
    /\ UNCHANGED session
    /\ UNCHANGED <<withdrawals, playground>>

\* The stETH contract emits TokenRebased with the totals after the rebase.
EmitTokenRebased(postTotalEther, postTotalShares) ==
    /\ call = NoCall
    /\ Emitted(log) < MaxEvents
    /\ log' = Append(log, TokenRebasedLog(postTotalEther, postTotalShares,
                                           head, logIdx))
    /\ logIdx' = logIdx + 1
    /\ UNCHANGED <<head, call, fold, result>>
    /\ UNCHANGED session
    /\ UNCHANGED <<withdrawals, playground>>

\* The block is sealed and the next one begins (blocks without stETH events
\* are not told apart from their predecessor).
MineBlock ==
    /\ call = NoCall
    /\ logIdx > 0
    /\ head' = head + 1
    /\ logIdx' = 0
    /\ UNCHANGED <<log, call, fold, result>>
    /\ UNCHANGED session
    /\ UNCHANGED <<withdrawals, playground>>

\* The forms of the account's address a caller may pass.
CallerAddresses == {Checksum(AccountId), Lower(AccountId)}

\* A caller invokes getRewardsFromChain; address, fromBlock, toBlock and
\* step are those parseProps returns (fromBlock <= toBlock, step > 0), and
\* so are the two flags, drawn here.
GetRewardsFromChain(address, fromBlock, toBlock, step) ==
    /\ call = NoCall
    /\ fromBlock <= toBlock
    /\ \E run \in {ChainRun(log, address, fromBlock, toBlock, step)} :
       \E includeZeroRebases \in BOOLEAN, includeOnlyRebases \in BOOLEAN,
          raises \in CoreErrorRaises :
          /\ call' = [path |-> "chain", address |-> address,
                      fromBlock |-> fromBlock, toBlock |-> toBlock,
                      includeZeroRebases |-> includeZeroRebases,
                      includeOnlyRebases |-> includeOnlyRebases]
          /\ result' = ChainReturn(run, fromBlock, toBlock, raises,
                                   includeZeroRebases, includeOnlyRebases)
          /\ fold' = IF fromBlock < earliestRebaseEventBlock /\ raises
                     THEN <<>> ELSE run.final.rewards
    /\ UNCHANGED <<log, head, logIdx>>
    /\ UNCHANGED session
    /\ UNCHANGED <<withdrawals, playground>>

\* A caller invokes getRewardsFromSubgraph while the service has ingested
\* the ledger up to lastIndexedBlock.
GetRewardsFromSubgraph(address, fromBlock, toBlock, step, lastIndexedBlock) ==
    /\ call = NoCall
    /\ fromBlock <= toBlock
    /\ \E run \in {SubgraphRun(log, lastIndexedBlock, address, fromBlock,
                                toBlock, step)} :
       \E includeZeroRebases \in BOOLEAN, includeOnlyRebases \in BOOLEAN :
          /\ call' = [path |-> "subgraph", address |-> address,
                      fromBlock |-> fromBlock, toBlock |-> toBlock,
                      includeZeroRebases |-> includeZeroRebases,
                      includeOnlyRebases |-> includeOnlyRebases]
          /\ result' = SubgraphReturn(run, lastIndexedBlock, fromBlock,
                                      includeZeroRebases, includeOnlyRebases)
          /\ fold' = run.final.rewards
    /\ UNCHANGED <<log, head, logIdx>>
    /\ UNCHANGED session
    /\ UNCHANGED <<withdrawals, playground>>

Next ==
    \/ \E p \in TransferPairs, v \in ShareValues :
           EmitTransferShares(p[1], p[2], v)
    \/ \E t \in RebaseTotals : EmitTokenRebased(t[1], t[2])
    \/ MineBlock
    \/ \E a \in CallerAddresses, f \in 0..head, t \in {head - 1, head},
          s \in Steps :
           GetRewardsFromChain(a, f, t, s)
    \/ \E a \in CallerAddresses, f \in 0..head, t \in {head - 1, head},
          s \in Steps, l \in {head - 1, head} :
           GetRewardsFromSubgraph(a, f, t, s, l)

Spec == Init /\ [][Next]_vars

\* ------------------------------------------------------------ vocabulary
Returned == call.path \in {"chain", "subgraph"} /\ result.status = "ok"
OnChain == call.path = "chain"
OnSubgraph == call.path = "subgraph"

MaxOf(S) == CHOOSE m \in S : \A n \in S : n <= m

\* balanceShares of the record before position i of rs (base for the first).
SharesBefore(rs, i, base) == IF i = 1 THEN base ELSE rs[i - 1].balanceShares

\* The share recurrence at position i of rs.
RecurrenceAt(rs, i, base) ==
    rs[i].balanceShares = SharesBefore(rs, i, base) + rs[i].changeShares

\* (blockNumber, logIndex) of the event a record was made from.
BlockOf(r) == IF OnChain THEN r.originalEvent.blockNumber
              ELSE BigInt(r.originalEvent.block)
LogIndexOf(r) == IF OnChain THEN r.originalEvent.logIndex
                 ELSE BigInt(r.originalEvent.logIndex)
KeyLeq(r1, r2) ==
    \/ BlockOf(r1) < BlockOf(r2)
    \/ BlockOf(r1) = BlockOf(r2) /\ LogIndexOf(r1) <= LogIndexOf(r2)

RECURSIVE IsSubseq(_, _)
\* a is b with some elements removed (the order of the others kept).
IsSubseq(a, b) ==
    IF a = <<>> THEN TRUE
    ELSE IF b = <<>> THEN FALSE
    ELSE IF Head(a) = Head(b) THEN IsSubseq(Tail(a), Tail(b))
    ELSE IsSubseq(a, Tail(b))

RECURSIVE SumRebaseChange(_)
\* Sum of change over the rebase records of rs.
SumRebaseChange(rs) ==
    IF rs = <<>> THEN 0
    ELSE (IF rs[1].type = "rebase" THEN rs[1].change ELSE 0)
         + SumRebaseChange(Tail(rs))

C2_TotalRewards ==
    Returned => result.totalRewards = SumRebaseChange(fold)

\* A ledger returned without its transfers and zero rebases whose fold has
\* rebases of non-zero change: the returned records are fewer than the
\* fold's and the total is not zero.
C2_Witness ==
    /\ Returned
    /\ ~call.includeOnlyRebases /\ ~call.includeZeroRebases
    /\ Len(result.rewards) < Len(fold)
    /\ result.totalRewards /= 0
    /\ \E i \in 1..Len(fold) : IsZeroRebase(fold[i])

\* C3: the returned records are in non-decreasing (blockNumber, logIndex)
\* order of their events, and they are the fold's records with some
\* removed, the order of the others unchanged.
C3_Ordered ==
    Returned =>
        /\ \A i \in 1..Len(fold) - 1 : KeyLeq(fold[i], fold[i + 1])
        /\ \A i \in 1..Len(result.rewards) - 1 :
              KeyLeq(result.rewards[i], result.rewards[i + 1])
        /\ IsSubseq(result.rewards, fold)

\* A returned ledger in which a rebase precedes a transfer of the same
\* block: the streams were concatenated the other way round.
C3_Witness ==
    /\ Returned
    /\ \E i \in 1..Len(result.rewards) - 1 :
          /\ result.rewards[i].type = "rebase"
          /\ result.rewards[i + 1].type /= "rebase"
          /\ BlockOf(result.rewards[i]) = BlockOf(result.rewards[i + 1])

\* ----------------------------------------------------- claims C4 .. C10
IsTransferRecord(r) == r.type /= "rebase"

\* Sender, recipient and share amount of the event of a transfer record.
FromIdOf(r) == IF OnChain THEN r.originalEvent.args.from.id
               ELSE r.originalEvent.from.id
ToIdOf(r) == IF OnChain THEN r.originalEvent.args.to.id
             ELSE r.originalEvent.to.id
SharesValueOf(r) == IF OnChain THEN r.originalEvent.args.sharesValue
                    ELSE BigInt(r.originalEvent.shares)

\* Totals reported by the event of a rebase record.
PostTotalsOf(r) ==
    IF OnChain
    THEN [totalEther |-> r.originalEvent.args.postTotalEther,
          totalShares |-> r.originalEvent.args.postTotalShares]
    ELSE [totalEther |-> BigInt(r.originalEvent.totalPooledEtherAfter),
          totalShares |-> BigInt(r.originalEvent.totalSharesAfter)]

Convert(shares, totals) ==
    IF totals.totalShares > 0
    THEN TruncDiv(shares * totals.totalEther, totals.totalShares) ELSE 0

\* The ledger's totals just before the event of the record r.
LedgerTotalsBefore(r) ==
    TotalsAfter(SelectSeq(log, LAMBDA e :
        \/ e.blockNumber < BlockOf(r)
        \/ e.blockNumber = BlockOf(r) /\ e.logIndex < LogIndexOf(r)))

\* The ledger's totals at the block before call.fromBlock.
BaseTotals ==
    TotalsAfter(UpToBlock(log, IF call.fromBlock = 0 THEN 0 ELSE call.fromBlock - 1))

\* Position of the nearest rebase record before position i of the fold (0 if
\* there is none).
LastRebaseBefore(i) ==
    LET js == {j \in 1..i - 1 : fold[j].type = "rebase"}
    IN IF js = {} THEN 0 ELSE MaxOf(js)

\* C4 (as stated, for a query from the ledger's first block on a ledger
\* without earlier history): on the same ledger, with lastIndexedBlock >=
\* toBlock, the subgraph path returns as many records as the chain path,
\* equal position by position in type, changeShares and balanceShares, and
\* the same baseBalanceShares.
C4_PathsAgree ==
    (/\ Returned /\ OnChain
     /\ call.fromBlock = earliestRebaseEventBlock
     /\ \A i \in 1..Len(log) : log[i].blockNumber >= earliestRebaseEventBlock) =>
        \A step \in Steps :
            LET sub == SubgraphReturn(
                           SubgraphRun(log, head, call.address, call.fromBlock,
                                       call.toBlock, step),
                           head, call.fromBlock, call.includeZeroRebases,
                           call.includeOnlyRebases)
            IN /\ sub.status = "ok"
               /\ sub.baseBalanceShares = result.baseBalanceShares
               /\ Len(sub.rewards) = Len(result.rewards)
               /\ \A i \in 1..Len(result.rewards) :
                     /\ sub.rewards[i].type = result.rewards[i].type
                     /\ sub.rewards[i].changeShares = result.rewards[i].changeShares
                     /\ sub.rewards[i].balanceShares = result.rewards[i].balanceShares

\* The type the claim gives a transfer between fromId and toId, account
\* being the queried account.
ClaimedType(fromId, toId, account) ==
    IF toId = account
    THEN (IF fromId = ZeroId THEN "submit" ELSE "transfer_in")
    ELSE (IF toId = WithdrawalQueueId THEN "withdrawal" ELSE "transfer_out")

\* C5 (as stated): every transfer event of the fold is typed submit when
\* the account receives from the zero address, transfer_in when it receives
\* from another address, withdrawal when it sends to the withdrawal queue,
\* transfer_out when it sends elsewhere; changeShares is +sharesValue for
\* submit / transfer_in and -sharesValue for withdrawal / transfer_out.
C5_Classification ==
    Returned =>
        \A i \in 1..Len(fold) :
            IsTransferRecord(fold[i]) =>
                /\ fold[i].type = ClaimedType(FromIdOf(fold[i]), ToIdOf(fold[i]),
                                              call.address.id)
                /\ fold[i].changeShares =
                      IF fold[i].type \in {"submit", "transfer_in"}
                      THEN SharesValueOf(fold[i]) ELSE -SharesValueOf(fold[i])

\* balance of the record before position i of rs (base for the first).
BalanceBefore(rs, i, base) == IF i = 1 THEN base ELSE rs[i - 1].balance

\* What C6 says of every rebase record but its change.
RebaseRecordShape(i) ==
    /\ fold[i].changeShares = 0
    /\ fold[i].balanceShares = SharesBefore(fold, i, result.baseBalanceShares)
    /\ fold[i].balance = Convert(fold[i].balanceShares, PostTotalsOf(fold[i]))

\* The scenario of C6: nothing held before, a submit of 100 shares, then a
\* rebase from 1000 to 1100 total ether with 10000 total shares.
C6_Scenario ==
    /\ Returned
    /\ result.baseBalanceShares = 0
    /\ BaseTotals = [totalEther |-> 1000, totalShares |-> 10000]
    /\ Len(fold) = 2
    /\ fold[1].type = "submit" /\ fold[1].changeShares = 100
    /\ fold[1].balanceShares = 100
    /\ fold[2].type = "rebase"
    /\ PostTotalsOf(fold[2]) = [totalEther |-> 1100, totalShares |-> 10000]

ChainTotalsAt(i) ==
    IF LastRebaseBefore(i) = 0 THEN BaseTotals
    ELSE PostTotalsOf(fold[LastRebaseBefore(i)])

\* C7: in getRewardsFromChain a transfer record has the shareRate of the
\* nearest rebase record before it (baseShareRate if none), and its change
\* and balance are changeShares and balanceShares converted with the totals
\* of that rebase (the base totals if none).
C7_TransferKeepsRate ==
    (Returned /\ OnChain) =>
        \A i \in 1..Len(fold) :
            IsTransferRecord(fold[i]) =>
                /\ fold[i].shareRate =
                      IF LastRebaseBefore(i) = 0 THEN result.baseShareRate
                      ELSE fold[LastRebaseBefore(i)].shareRate
                /\ fold[i].change = Convert(fold[i].changeShares, ChainTotalsAt(i))
                /\ fold[i].balance = Convert(fold[i].balanceShares, ChainTotalsAt(i))

\* A chain fold where a transfer follows a rebase that changed the rate.
C7_Witness ==
    /\ Returned /\ OnChain
    /\ \E i \in 1..Len(fold) :
          /\ IsTransferRecord(fold[i])
          /\ LastRebaseBefore(i) /= 0
          /\ fold[i].shareRate /= result.baseShareRate

\* C8: with includeOnlyRebases false only rebase records are returned; with
\* includeOnlyRebases true every transfer record of the fold is returned,
\* together with the rebase records (those the zero filter keeps).
C8_OnlyRebases ==
    Returned =>
        IF ~call.includeOnlyRebases
        THEN \A i \in 1..Len(result.rewards) : result.rewards[i].type = "rebase"
        ELSE /\ SelectSeq(result.rewards, IsTransferRecord)
                  = SelectSeq(fold, IsTransferRecord)
             /\ \A i \in 1..Len(fold) :
                   (fold[i].type = "rebase" /\ fold[i].change /= 0) =>
                       \E j \in 1..Len(result.rewards) : result.rewards[j] = fold[i]

\* includeOnlyRebases false dropped a transfer record of the fold and kept
\* a rebase record.
C8_Witness ==
    /\ Returned /\ ~call.includeOnlyRebases
    /\ \E i \in 1..Len(fold) : IsTransferRecord(fold[i])
    /\ Len(result.rewards) > 0

\* C9: with includeZeroRebases false no rebase record of change 0 is
\* returned and every rebase record of the fold with change /= 0 is; with
\* includeZeroRebases true every rebase record of the fold is returned; a
\* transfer record is returned unless includeOnlyRebases is false.
C9_ZeroRebases ==
    Returned =>
        /\ SelectSeq(result.rewards, IsRebase)
             = SelectSeq(fold, LAMBDA r : IsRebase(r) /\
                                          (call.includeZeroRebases \/ r.change /= 0))
        /\ ~call.includeZeroRebases =>
              \A i \in 1..Len(result.rewards) : ~IsZeroRebase(result.rewards[i])
        /\ call.includeOnlyRebases =>
              \A i \in 1..Len(fold) :
                  IsTransferRecord(fold[i]) =>
                      \E j \in 1..Len(result.rewards) : result.rewards[j] = fold[i]

\* includeZeroRebases false dropped a rebase of change 0 and kept a rebase
\* of non-zero change, includeOnlyRebases being false and the fold being
\* rebases only.
C9_Witness ==
    /\ Returned
    /\ ~call.includeZeroRebases /\ ~call.includeOnlyRebases
    /\ \A i \in 1..Len(fold) : IsRebase(fold[i])
    /\ \E i \in 1..Len(fold) : IsZeroRebase(fold[i])
    /\ \E j \in 1..Len(result.rewards) : result.rewards[j].change /= 0

\* C10: the two filters commute: on the fold of any call and for both
\* values of each flag, includeOnlyRebases then includeZeroRebases (chain
\* order) gives what includeZeroRebases then includeOnlyRebases (subgraph
\* order) gives, and that is what the call returned.
C10_FiltersCommute ==
    Returned =>
        /\ \A z \in BOOLEAN, o \in BOOLEAN :
              FilterZeroRebases(FilterOnlyRebases(fold, o), z)
                  = FilterOnlyRebases(FilterZeroRebases(fold, z), o)
        /\ result.rewards =
              IF OnChain
              THEN FilterOnlyRebases(
                       FilterZeroRebases(fold, call.includeZeroRebases),
                       call.includeOnlyRebases)
              ELSE FilterZeroRebases(
                       FilterOnlyRebases(fold, call.includeOnlyRebases),
                       call.includeZeroRebases)

\* Both filters removed something from a fold that mixes transfers, a
\* rebase of change 0 and a rebase of non-zero change.
C10_Witness ==
    /\ Returned
    /\ ~call.includeZeroRebases /\ ~call.includeOnlyRebases
    /\ \E i \in 1..Len(fold) : IsTransferRecord(fold[i])
    /\ \E i \in 1..Len(fold) : IsZeroRebase(fold[i])
    /\ \E i \in 1..Len(fold) : IsRebase(fold[i]) /\ fold[i].change /= 0

\* -------------------------------------------------------- range resolver
\* An optional value (a property that may be undefined) is a sequence of
\* length 0 or 1.  A bigint or number is truthy unless it is 0.
Truthy(opt) == opt /= <<>> /\ opt[1] /= 0
Default(opt, d) == IF opt = <<>> THEN d ELSE opt[1]

\* LidoSDKRewards.DEFAULT_STEP
DEFAULT_STEP == 1000

\* BlockArgumentType: { block: bigint | tag } or { timestamp: bigint }.
BlockNumber(n) == [timestamp |-> <<>>, block |-> [type |-> "bigint", value |-> n]]
BlockTag(tag) == [timestamp |-> <<>>, block |-> [type |-> "string", value |-> tag]]
Timestamp(t) == [timestamp |-> <<t>>, block |-> [type |-> "undefined"]]

\* BackArgumentType: { blocks } or { days } or { seconds }.
Back(blocks, days, seconds) == [blocks |-> blocks, days |-> days, seconds |-> seconds]

\* How a step of the resolver ends: with a block number, or with an error;
\* `io` lists the collaborator requests it issued on the way.
Resolved(number, requests) == [status |-> "ok", number |-> <<number>>, io |-> requests]
ArgumentError(message, requests) ==
    [status |-> "ARGUMENT", message |-> message, io |-> requests]

\* core.rpcProvider.getBlock({ blockTag }).number: absent for the pending
\* block.
getBlock(blockTag, latest) ==
    IF blockTag = "pending" THEN <<>>
    ELSE IF blockTag = "earliest" THEN <<0>>
    ELSE <<latest>>

\* core.getLatestBlockToTimestamp(timestamp).number: the latest block mined
\* at or before the timestamp (seconds).
getLatestBlockToTimestamp(timestamp, latest) ==
    IF timestamp \div BlockSeconds > latest THEN latest
    ELSE timestamp \div BlockSeconds

\* Variant of toBackBlock that turns a block count into a time span and
\* resolves it through the timestamp lookup.
toBackBlock_BlocksByClock(arg, start, clock, latest) ==
    IF Truthy(arg.blocks) THEN
        LET date == TruncDiv(clock, 1000) - arg.blocks[1] * BlockSeconds
        IN IF date < 0
           THEN ArgumentError("Too many blocks back", <<>>)
           ELSE Resolved(getLatestBlockToTimestamp(date, latest),
                         <<"getLatestBlockToTimestamp">>)
    ELSE IF Truthy(arg.days) THEN
        LET date == TruncDiv(clock - arg.days[1] * DayMs, 1000)
        IN Resolved(getLatestBlockToTimestamp(date, latest),
                    <<"getLatestBlockToTimestamp">>)
    ELSE IF Truthy(arg.seconds) THEN
        IF clock % 1000 /= 0 THEN [status |-> "RangeError", io |-> <<>>]
        ELSE LET date == clock \div 1000 - arg.seconds[1]
             IN Resolved(getLatestBlockToTimestamp(date, latest),
                         <<"getLatestBlockToTimestamp">>)
    ELSE ArgumentError("must have at least something in back argument", <<>>)

\* toBlockNumber(arg): `if (arg.timestamp)` and invariantArgument(number)
\* test truthiness.
toBlockNumber(arg, latest) ==
    IF Truthy(arg.timestamp)
    THEN Resolved(getLatestBlockToTimestamp(arg.timestamp[1], latest),
                  <<"getLatestBlockToTimestamp">>)
    ELSE IF arg.block.type = "bigint" THEN Resolved(arg.block.value, <<>>)
    ELSE LET number == getBlock(IF arg.block.type = "string"
                                THEN arg.block.value ELSE "latest", latest)
         IN IF Truthy(number) THEN Resolved(number[1], <<"getBlock">>)
            ELSE ArgumentError("block must not be pending", <<"getBlock">>)

\* toBackBlock(arg, start), the clock reading `clock` milliseconds.
\* BigInt(Date.now() / 1000) throws a RangeError unless the quotient is an
\* integer.
toBackBlock(arg, start, clock, latest) ==
    IF Truthy(arg.blocks) THEN
        LET end == start - arg.blocks[1]
        IN IF end >= 0 THEN Resolved(end, <<>>)
           ELSE ArgumentError("Too many blocks back", <<>>)
    ELSE IF Truthy(arg.days) THEN
        LET date == TruncDiv(clock - arg.days[1] * DayMs, 1000)
        IN Resolved(getLatestBlockToTimestamp(date, latest),
                    <<"getLatestBlockToTimestamp">>)
    ELSE IF Truthy(arg.seconds) THEN
        IF clock % 1000 /= 0 THEN [status |-> "RangeError", io |-> <<>>]
        ELSE LET date == clock \div 1000 - arg.seconds[1]
             IN Resolved(getLatestBlockToTimestamp(date, latest),
                         <<"getLatestBlockToTimestamp">>)
    ELSE ArgumentError("must have at least something in back argument", <<>>)

\* parseProps(props): the `to` specifier is resolved first, then the `from`
\* (or `back`) specifier, then the order of the range and the step are
\* checked.
parseProps(props, clock, latest) ==
    LET to == toBlockNumber(Default(props.to, BlockTag("latest")), latest)
    IN IF to.status /= "ok" THEN to
       ELSE
        LET toBlock == to.number[1]
            from == IF props.from /= <<>>
                    THEN toBlockNumber(props.from[1], latest)
                    ELSE toBackBlock(props.back, toBlock, clock, latest)
            requests == to.io \o from.io
        IN IF from.status /= "ok" THEN [from EXCEPT !.io = requests]
           ELSE
            LET fromBlock == from.number[1]
                step == Default(props.step, DEFAULT_STEP)
            IN IF ~(toBlock >= fromBlock)
               THEN ArgumentError("toBlock is lower than fromBlock", requests)
               ELSE IF ~(step > 0)
               THEN ArgumentError("steps must be a positive integer", requests)
               ELSE [status |-> "ok",
                     address |-> props.address,
                     fromBlock |-> fromBlock,
                     toBlock |-> toBlock,
                     step |-> step,
                     includeZeroRebases |-> Default(props.includeZeroRebases, FALSE),
                     includeOnlyRebases |-> Default(props.includeOnlyRebases, FALSE),
                     io |-> requests]

\* ------------------------------------------------------- one staged call
\* core.getContractAddress(...) behind @Cache: a request only while the
\* cache is cold.
AddressRequests(names, cold) == IF cold THEN names ELSE <<>>

\* Promise.all([this.parseProps(props), <address resolutions>]): parseProps
\* runs up to its first await (the resolution of `to`), then the address
\* resolutions are started, then parseProps goes on.
IssueOrder(props, parsed, addressIo, latest) ==
    LET first == toBlockNumber(Default(props.to, BlockTag("latest")), latest).io
    IN first \o addressIo \o SubSeq(parsed.io, Len(first) + 1, Len(parsed.io))

\* The requests of getRewardsFromSubgraph after parseProps.
SubgraphRequests ==
    <<"getLastIndexedBlock", "getTransfers", "getTotalRewards", "getInitialData">>

\* getRewardsFromChain(props) from the first line to the last: what it
\* returns or throws, the fold, and the requests it issued.
ChainOutcome(lg, latest, props, clock, cold, raises) ==
    LET parsed == parseProps(props, clock, latest)
        started == IssueOrder(props, parsed,
                       AddressRequests(<<"getContractAddress(lido)",
                                         "getContractAddress(withdrawalQueue)">>, cold),
                       latest)
    IN IF parsed.status /= "ok"
       THEN [parsed |-> parsed, result |-> [status |-> parsed.status],
             fold |-> <<>>, io |-> started]
       ELSE IF parsed.fromBlock < earliestRebaseEventBlock /\ raises
       THEN [parsed |-> parsed, result |-> [status |-> "NOT_SUPPORTED"],
             fold |-> <<>>, io |-> started]
       ELSE LET run == ChainRun(lg, parsed.address, parsed.fromBlock,
                                parsed.toBlock, parsed.step)
            IN [parsed |-> parsed,
                result |-> ChainReturn(run, parsed.fromBlock, parsed.toBlock,
                                       raises, parsed.includeZeroRebases,
                                       parsed.includeOnlyRebases),
                fold |-> run.final.rewards,
                io |-> started \o ChainRequests]

\* Variant of SubgraphOutcome that asks for the last indexed block together
\* with parseProps (the request does not need the parsed range).
SubgraphOutcome_EagerIndexed(lg, latest, props, clock, cold, lastIndexedBlock) ==
    LET parsed == parseProps(props, clock, latest)
        started == IssueOrder(props, parsed,
                       AddressRequests(<<"getContractAddress(withdrawalQueue)">>, cold)
                           \o <<"getLastIndexedBlock">>,
                       latest)
    IN IF parsed.status /= "ok"
       THEN [parsed |-> parsed, result |-> [status |-> parsed.status],
             fold |-> <<>>, io |-> started]
       ELSE LET run == SubgraphRun(lg, lastIndexedBlock, parsed.address,
                                   parsed.fromBlock, parsed.toBlock, parsed.step)
            IN [parsed |-> parsed,
                result |-> SubgraphReturn(run, lastIndexedBlock, parsed.fromBlock,
                                          parsed.includeZeroRebases,
                                          parsed.includeOnlyRebases),
                fold |-> run.final.rewards,
                io |-> started \o Tail(SubgraphRequests)]

\* getRewardsFromSubgraph(props) from the first line to the last, the
\* service having ingested the ledger up to lastIndexedBlock.
SubgraphOutcome(lg, latest, props, clock, cold, lastIndexedBlock) ==
    LET parsed == parseProps(props, clock, latest)
        started == IssueOrder(props, parsed,
                       AddressRequests(<<"getContractAddress(withdrawalQueue)">>, cold),
                       latest)
    IN IF parsed.status /= "ok"
       THEN [parsed |-> parsed, result |-> [status |-> parsed.status],
             fold |-> <<>>, io |-> started]
       ELSE LET run == SubgraphRun(lg, lastIndexedBlock, parsed.address,
                                   parsed.fromBlock, parsed.toBlock, parsed.step)
            IN [parsed |-> parsed,
                result |-> SubgraphReturn(run, lastIndexedBlock, parsed.fromBlock,
                                          parsed.includeZeroRebases,
                                          parsed.includeOnlyRebases),
                fold |-> run.final.rewards,
                io |-> started \o SubgraphRequests]

\* ------------------------------------------- queries with range specifiers
\* The ledger the queries below are made against: the account minted 100
\* shares in block 0, rebases in blocks 2 and 3, block 4 is the latest.
QueryLedger ==
    <<TransferSharesLog(ZeroId, AccountId, 100, 0, 0),
      TokenRebasedLog(1100, 10000, 2, 0),
      TokenRebasedLog(2010, 20000, 3, 0)>>
QueryHead == Len(QueryLedger) + 1

\* The specifiers a caller may pass.
ToSpecifiers ==
    {<<>>, <<BlockNumber(3)>>, <<BlockTag("latest")>>, <<BlockTag("earliest")>>,
     <<BlockTag("pending")>>, <<Timestamp(3 * BlockSeconds)>>}
FromSpecifiers == {<<>>, <<BlockNumber(1)>>, <<BlockNumber(4)>>, <<BlockTag("pending")>>}
NoBack == Back(<<>>, <<>>, <<>>)
BackSpecifiers ==
    {NoBack, Back(<<0>>, <<>>, <<>>), Back(<<1>>, <<>>, <<>>), Back(<<5>>, <<>>, <<>>),
     Back(<<>>, <<1>>, <<>>), Back(<<>>, <<>>, <<BlockSeconds>>)}
StepOptions == {<<>>, <<0>>, <<2>>}

Queries ==
    {q \in [to : ToSpecifiers, from : FromSpecifiers, back : BackSpecifiers,
            step : StepOptions, address : {Checksum(AccountId)},
            includeZeroRebases : {<<>>}, includeOnlyRebases : {<<>>}] :
        q.from /= <<>> => q.back = NoBack}

\* The readings of the clock at which calls are made: on a full second or
\* not, half a day apart.
ClockReadings == {Epoch, Epoch + 500, Epoch + DayMs \div 2, Epoch + DayMs \div 2 + 500}

InitQuery ==
    /\ log = QueryLedger
    /\ head = QueryHead
    /\ logIdx = 0
    /\ call = NoCall
    /\ fold = <<>>
    /\ result = NoResult
    /\ InitSession

\* Time passes; the data source does not change.
Tick(reading) ==
    /\ reading > now
    /\ now' = reading
    /\ UNCHANGED <<log, head, logIdx, call, fold, result, io, prev, settled>>
    /\ UNCHANGED <<withdrawals, playground>>

\* A caller invokes getRewardsFromChain(props).
InvokeChain(props, cold, raises) ==
    /\ call = NoCall
    /\ \E out \in {ChainOutcome(log, head, props, now, cold, raises)} :
          /\ call' = [path |-> "chain", props |-> props, parsed |-> out.parsed,
                      clock |-> now, since |-> now, raises |-> raises]
          /\ result' = out.result
          /\ fold' = out.fold
          /\ io' = out.io
    /\ UNCHANGED <<log, head, logIdx, now, prev, settled>>
    /\ UNCHANGED <<withdrawals, playground>>

\* A caller invokes getRewardsFromSubgraph(props).
InvokeSubgraph(props, cold, lastIndexedBlock) ==
    /\ call = NoCall
    /\ \E out \in {SubgraphOutcome(log, head, props, now, cold, lastIndexedBlock)} :
          /\ call' = [path |-> "subgraph", props |-> props, parsed |-> out.parsed,
                      clock |-> now, since |-> now, lastIndexedBlock |-> lastIndexedBlock]
          /\ result' = out.result
          /\ fold' = out.fold
          /\ io' = out.io
    /\ UNCHANGED <<log, head, logIdx, now, prev, settled>>
    /\ UNCHANGED <<withdrawals, playground>>

\* The caller invokes the same method with the same props once more (the
\* address cache is warm by now).
Reinvoke ==
    /\ call /= NoCall
    /\ prev = NoResult
    /\ \E out \in {IF call.path = "chain"
                   THEN ChainOutcome(log, head, call.props, now, FALSE, call.raises)
                   ELSE SubgraphOutcome(log, head, call.props, now, FALSE,
                                        call.lastIndexedBlock)} :
          /\ call' = [call EXCEPT !.parsed = out.parsed, !.clock = now]
          /\ prev' = result
          /\ result' = out.result
          /\ fold' = out.fold
          /\ io' = out.io
    /\ UNCHANGED <<log, head, logIdx, now, settled>>
    /\ UNCHANGED <<withdrawals, playground>>

NextQuery ==
    \/ \E reading \in ClockReadings : Tick(reading)
    \/ \E q \in Queries, cold \in BOOLEAN, raises \in CoreErrorRaises :
           InvokeChain(q, cold, raises)
    \/ \E q \in Queries, cold \in BOOLEAN, l \in {head - 1, head} :
           InvokeSubgraph(q, cold, l)
    \/ Reinvoke

SpecQuery == InitQuery /\ [][NextQuery]_vars

\* ------------------------------------------------------ claims C11 .. C20
Invoked == call /= NoCall

\* The block a specifier stands for, as the claims read it: a number is
\* itself, `latest` is the latest block, `earliest` is block 0, a timestamp
\* is the latest block at or before it; nothing for `pending`.
SpecifiedBlock(arg) ==
    IF arg.timestamp /= <<>> THEN <<getLatestBlockToTimestamp(arg.timestamp[1], head)>>
    ELSE IF arg.block.type = "bigint" THEN <<arg.block.value>>
    ELSE IF arg.block.value = "pending" THEN <<>>
    ELSE IF arg.block.value = "earliest" THEN <<0>>
    ELSE <<head>>

SpecifiedTo(q) == SpecifiedBlock(Default(q.to, BlockTag("latest")))

\* The block a back specifier stands for, counted from toBlock at the
\* clock reading `clock`.
SpecifiedBack(back, toBlock, clock) ==
    IF back.blocks /= <<>> THEN <<toBlock - back.blocks[1]>>
    ELSE IF back.days /= <<>>
    THEN <<getLatestBlockToTimestamp((clock - back.days[1] * DayMs) \div 1000, head)>>
    ELSE IF back.seconds /= <<>>
    THEN <<getLatestBlockToTimestamp(clock \div 1000 - back.seconds[1], head)>>
    ELSE <<>>

SpecifiedFrom(q, clock) ==
    IF q.from /= <<>> THEN SpecifiedBlock(q.from[1])
    ELSE IF SpecifiedTo(q) = <<>> THEN <<>>
    ELSE SpecifiedBack(q.back, SpecifiedTo(q)[1], clock)

\* The five cases in which C11 has parseProps fail.
ArgumentCase(q, clock) ==
    \/ SpecifiedTo(q) = <<>>
    \/ q.from /= <<>> /\ SpecifiedFrom(q, clock) = <<>>
    \/ q.from = <<>> /\ q.back = NoBack
    \/ /\ SpecifiedTo(q) /= <<>> /\ SpecifiedFrom(q, clock) /= <<>>
       /\ SpecifiedTo(q)[1] < SpecifiedFrom(q, clock)[1]
    \/ /\ SpecifiedFrom(q, clock) /= <<>>
       /\ SpecifiedFrom(q, clock)[1] < 0
    \/ q.step /= <<>> /\ q.step[1] <= 0

\* C11: parseProps ends in an argument error exactly when toBlock <
\* fromBlock, step <= 0, the back specifier has no field set, the blocks
\* back exceed toBlock, or a tag resolves to the pending block; in every
\* other case it returns fromBlock <= toBlock and step > 0.
C11_ArgumentErrors ==
    Invoked =>
        IF ArgumentCase(call.props, call.clock)
        THEN call.parsed.status = "ARGUMENT"
        ELSE /\ call.parsed.status = "ok"
             /\ call.parsed.fromBlock <= call.parsed.toBlock
             /\ call.parsed.step > 0


\* The requests that resolve a specifier or a contract address.
LookupRequests ==
    {"getBlock", "getLatestBlockToTimestamp",
     "getContractAddress(lido)", "getContractAddress(withdrawalQueue)"}

\* C12 (as stated): when a call ends in an argument error it has issued no
\* request to any collaborator.
C12_NoRequestBeforeArgumentError ==
    (Invoked /\ result.status = "ARGUMENT") => io = <<>>

\* C12 (amended): when a call ends in an argument error it has issued no
\* historical state read, no event fetch and no subgraph query (the last
\* indexed block included); it may have issued the block lookups that
\* resolve its specifiers and the contract-address resolutions that start
\* together with parseProps.
C12_OnlyLookupsBeforeArgumentError ==
    (Invoked /\ result.status = "ARGUMENT") =>
        /\ \A i \in 1..Len(io) : io[i] \in LookupRequests
        /\ result = [status |-> "ARGUMENT"]
        /\ fold = <<>>

\* A call that ended in the step error after a block lookup and, the cache
\* being cold, a contract-address resolution.
C12_Witness ==
    /\ Invoked /\ result.status = "ARGUMENT"
    /\ call.parsed.message = "steps must be a positive integer"
    /\ \E i, j \in 1..Len(io) :
          /\ io[i] = "getBlock"
          /\ io[j] = "getContractAddress(withdrawalQueue)"


\* C13: getRewardsFromChain with fromBlock below the earliest TokenRebased
\* block ends in a NOT_SUPPORTED error and delivers no ledger.
C13_NotSupported ==
    (OnChain /\ call.fromBlock < earliestRebaseEventBlock) =>
        result = [status |-> "NOT_SUPPORTED"]


\* The logs of the ledger in blocks lo..hi (in the model every log is a
\* rebase or a transfer of the account).
LogsIn(lo, hi) ==
    SelectSeq(log, LAMBDA e : lo <= e.blockNumber /\ e.blockNumber <= hi)

\* C14: getRewardsFromSubgraph raises no error, returns toBlock =
\* min(requested toBlock, lastIndexedBlock), and its fold holds one record
\* for each entity of [fromBlock, that toBlock] and none from outside.
C14_CappedToBlock ==
    OnSubgraph =>
        /\ Returned
        /\ result.toBlock = IF result.lastIndexedBlock < call.toBlock
                            THEN result.lastIndexedBlock ELSE call.toBlock
        /\ result.fromBlock = call.fromBlock
        /\ \A i \in 1..Len(fold) :
              /\ call.fromBlock <= BlockOf(fold[i])
              /\ BlockOf(fold[i]) <= result.toBlock
        /\ Len(fold) = Len(LogsIn(call.fromBlock, result.toBlock))

\* The requested toBlock is past the last indexed block and has a log the
\* call leaves out, while it returns a record of an earlier block.
C14_Witness ==
    /\ OnSubgraph /\ Returned
    /\ call.toBlock > result.lastIndexedBlock
    /\ LogsIn(call.toBlock, call.toBlock) /= <<>>
    /\ fold /= <<>>


\* C15: with no from specifier and a back specifier of n blocks, 0 <= n <=
\* toBlock, parseProps resolves fromBlock to toBlock - n and issues no
\* timestamp lookup for it (the step being valid and `to` not a timestamp).
C15_BlocksBack ==
    (/\ Invoked
     /\ call.props.from = <<>>
     /\ call.props.back.blocks /= <<>>
     /\ Default(call.props.step, DEFAULT_STEP) > 0
     /\ toBlockNumber(Default(call.props.to, BlockTag("latest")), head).status = "ok") =>
        LET toBlock == toBlockNumber(Default(call.props.to, BlockTag("latest")),
                                     head).number[1]
            n == call.props.back.blocks[1]
        IN (0 <= n /\ n <= toBlock) =>
              /\ call.parsed.status = "ok"
              /\ call.parsed.toBlock = toBlock
              /\ call.parsed.fromBlock = toBlock - n
              /\ call.props.to = <<>> =>
                    \A i \in 1..Len(call.parsed.io) :
                        call.parsed.io[i] /= "getLatestBlockToTimestamp"


\* ------------------------------------------ rebase-only streams (C16)
\* Ledgers on which the account holds 0, 100 or 150 shares from block 0 on
\* and receives no transfer afterwards; every rebase keeps the total shares
\* of Genesis and moves the total ether by a multiple of 50.
DriftHistories ==
    {<<>>,
     <<TransferSharesLog(ZeroId, AccountId, 100, 0, 0)>>,
     <<TransferSharesLog(ZeroId, AccountId, 150, 0, 0)>>}
DriftTotals == {<<1050, Genesis.totalShares>>, <<1100, Genesis.totalShares>>}

InitDrift ==
    /\ log \in DriftHistories
    /\ head = earliestRebaseEventBlock
    /\ logIdx = 0
    /\ call = NoCall
    /\ fold = <<>>
    /\ result = NoResult
    /\ InitSession

NextDrift ==
    \/ \E t \in DriftTotals : EmitTokenRebased(t[1], t[2])
    \/ MineBlock
    \/ \E a \in CallerAddresses, f \in 1..head, t \in {head - 1, head},
          s \in Steps :
           GetRewardsFromChain(a, f, t, s)
    \/ \E a \in CallerAddresses, f \in 1..head, t \in {head - 1, head},
          s \in Steps, l \in {head - 1, head} :
           GetRewardsFromSubgraph(a, f, t, s, l)

SpecDrift == InitDrift /\ [][NextDrift]_vars

\* Total ether reported by the event of record i of the fold, and the total
\* ether in effect just before it.
EtherAfter(i) == PostTotalsOf(fold[i]).totalEther
EtherBefore(i) == LedgerTotalsBefore(fold[i]).totalEther

\* shares * deltaEther / totalShares, computed once on the delta.
OnDelta(i) ==
    Convert(fold[i].balanceShares,
            [totalEther |-> EtherAfter(i) - EtherBefore(i),
             totalShares |-> PostTotalsOf(fold[i]).totalShares])

\* C16 (as stated): in a stream of rebases that keep the total shares, each
\* rebase record's change is shares * deltaEther / totalShares computed on
\* the delta, and the changes add up to totalRewards.
C16_ChangeOnDelta ==
    Returned =>
        /\ \A i \in 1..Len(fold) : fold[i].change = OnDelta(i)
        /\ SumRebaseChange(fold) = result.totalRewards

\* C16 (amended): each rebase record's change is the balance of the shares
\* at the new totals minus the running balance (on the chain path: the
\* balance of the same shares at the totals just before the event), both
\* truncated before the subtraction, so it is within 1 of the value computed
\* on the delta; the changes add up to totalRewards, which is the last
\* balance minus baseBalance.
C16_ChangeOfBalances ==
    Returned =>
        /\ \A i \in 1..Len(fold) :
              /\ fold[i].balance = Convert(fold[i].balanceShares, PostTotalsOf(fold[i]))
              /\ fold[i].change =
                    fold[i].balance - BalanceBefore(fold, i, result.baseBalance)
              /\ OnChain =>
                    /\ BalanceBefore(fold, i, result.baseBalance)
                          = Convert(fold[i].balanceShares, LedgerTotalsBefore(fold[i]))
                    /\ fold[i].change - OnDelta(i) \in {-1, 0, 1}
        /\ SumRebaseChange(fold) = result.totalRewards
        /\ result.totalRewards =
              IF fold = <<>> THEN 0
              ELSE fold[Len(fold)].balance - result.baseBalance

\* Two rebases of +50 ether each in the range, the account holding shares:
\* the first change is 0 and the second is 1.
C16_Witness ==
    /\ Returned /\ OnChain
    /\ result.baseBalanceShares > 0
    /\ Len(fold) = 2
    /\ EtherAfter(1) - EtherBefore(1) = EtherAfter(2) - EtherBefore(2)
    /\ fold[1].change /= fold[2].change
    /\ result.totalRewards = 1


\* The caller made the same call twice.
Reinvoked == Invoked /\ prev /= NoResult

\* The range starts a number of days or seconds back from the clock.
ClockBased(q) ==
    q.from = <<>> /\ (q.back.days /= <<>> \/ q.back.seconds /= <<>>)

\* C17 (as stated): two invocations with the same query against the same
\* data source return identical ledgers, whatever the range specifiers.
C17_Idempotent ==
    Reinvoked => prev = result

\* C17 (amended): two invocations with the same query against the same
\* data source end alike - same error or identical ledgers - when the range
\* is given by to/from specifiers or by a count of blocks back; a range
\* given in days or seconds back is resolved from the clock at each call.
C17_IdempotentOffClock ==
    (Reinvoked /\ ~ClockBased(call.props)) => prev = result

\* The second of two calls with a range of one block back was made later
\* than the first and returned a ledger.
C17_Witness ==
    /\ Reinvoked
    /\ call.clock > call.since
    /\ call.props.back.blocks = <<1>>
    /\ result.status = "ok"
    /\ prev = result


\* ---------------------------------------------------------------------
\* The second Promise.all of getRewardsFromChain, one sub-request at a time
\* ---------------------------------------------------------------------

\* The ledgers read while the six sub-requests are in flight.
FanInLedgers ==
    {QueryLedger,
     <<TransferSharesLog(ZeroId, AccountId, 100, 1, 0),
       TokenRebasedLog(1100, 10000, 2, 0),
       TransferSharesLog(AccountId, OtherId, 100, 3, 0)>>}

\* The names of a list of sub-requests.
Names(requests) == {requests[i] : i \in 1..Len(requests)}

\* The sub-requests that have completed so far.
Landed(landed) == {landed[i].name : i \in 1..Len(landed)}

\* Promise.all resolves when every sub-request has completed.
PromiseAllResolved_ReadsOnly(requests, landed) ==
    {requests[i] : i \in 1..3} \subseteq Landed(landed)
PromiseAllResolved(requests, landed) ==
    Names(requests) \subseteq Landed(landed)

\* The array Promise.all resolves to, by the position of each sub-request in
\* the list passed to it and not by completion order; a sub-request that has
\* not completed has delivered nothing.
PromiseAll(requests, landed) ==
    [name \in Names(requests) |->
        IF name \in Landed(landed)
        THEN LET i == CHOOSE i \in 1..Len(landed) : landed[i].name = name
             IN landed[i].answer
        ELSE <<>>]

InitFanIn ==
    /\ log \in FanInLedgers
    /\ head = QueryHead
    /\ logIdx = 0
    /\ call = NoCall
    /\ fold = <<>>
    /\ result = NoResult
    /\ InitSession

\* getRewardsFromChain reaches the second Promise.all and issues the six
\* sub-requests.
FanOut(address, fromBlock, toBlock, step) ==
    /\ call = NoCall
    /\ earliestRebaseEventBlock <= fromBlock
    /\ fromBlock <= toBlock
    /\ \E includeZeroRebases \in BOOLEAN, includeOnlyRebases \in BOOLEAN :
          call' = [path |-> "chain", address |-> address,
                   fromBlock |-> fromBlock, toBlock |-> toBlock,
                   step |-> step,
                   includeZeroRebases |-> includeZeroRebases,
                   includeOnlyRebases |-> includeOnlyRebases,
                   stage |-> "awaiting"]
    /\ io' = ChainRequests
    /\ settled' = NoAnswers
    /\ UNCHANGED <<log, head, logIdx, fold, result, now, prev>>
    /\ UNCHANGED <<withdrawals, playground>>

\* The chunks requestWithBlockStep asks for, in ascending block order.
ChunkList(step, fromBlock, toBlock) ==
    [i \in 1..((toBlock - fromBlock) \div step + 1) |->
        <<fromBlock + (i - 1) * step,
          IF fromBlock + i * step - 1 > toBlock
          THEN toBlock ELSE fromBlock + i * step - 1>>]

\* The orders in which n chunk requests in flight may complete.
CompletionOrders(n) ==
    {order \in [1..n -> 1..n] : \A i, j \in 1..n : order[i] = order[j] => i = j}

\* The answer of the request for one chunk of an event stream.
ChainChunk(name, lg, address, chunk) ==
    CASE name = "TransferShares(from)" ->
            getEventsTransferSharesFrom(lg, address, chunk[1], chunk[2])
      [] name = "TransferShares(to)" ->
            getEventsTransferSharesTo(lg, address, chunk[1], chunk[2])
      [] name = "TokenRebased" ->
            getEventsTokenRebased(lg, chunk[1], chunk[2])

\* An event stream whose chunk requests ran concurrently and whose answers
\* were put together in the order they completed in.
StreamAsCompleted(name, lg, address, chunks, order) ==
    LET joined[i \in 0..Len(chunks)] ==
            IF i = 0 THEN <<>>
            ELSE joined[i - 1] \o ChainChunk(name, lg, address, chunks[order[i]])
    IN joined[Len(chunks)]

\* One of the sub-requests in flight completes; the chunk requests of an
\* event stream complete in any order.
Settle(name) ==
    /\ call /= NoCall
    /\ call.stage = "awaiting"
    /\ name \in Names(io) \ Landed(settled)
    /\ \E order \in CompletionOrders(Len(ChunkList(call.step, call.fromBlock,
                                                     call.toBlock))) :
          settled' = Append(settled,
              [name |-> name,
               answer |->
                  IF name \in {"sharesOf", "getTotalPooledEther", "getTotalShares"}
                  THEN ChainAnswer(name, log, call.address, call.fromBlock,
                                   call.toBlock, call.step)
                  ELSE StreamAsCompleted(name, log, call.address,
                           ChunkList(call.step, call.fromBlock, call.toBlock),
                           order)])
    /\ UNCHANGED <<log, head, logIdx, call, fold, result, now, io, prev>>
    /\ UNCHANGED <<withdrawals, playground>>

\* Promise.all has resolved: the rest of getRewardsFromChain runs.
Continue ==
    /\ call /= NoCall
    /\ call.stage = "awaiting"
    /\ PromiseAllResolved(io, settled)
    /\ \E run \in {ChainRunOn(PromiseAll(io, settled), call.address)} :
          /\ result' = ChainReturn(run, call.fromBlock, call.toBlock, FALSE,
                                   call.includeZeroRebases,
                                   call.includeOnlyRebases)
          /\ fold' = run.final.rewards
    /\ call' = [call EXCEPT !.stage = "returned"]
    /\ UNCHANGED <<log, head, logIdx, now, io, prev, settled>>
    /\ UNCHANGED <<withdrawals, playground>>

\* The address the fan-in calls are made with.
FanInAddresses == {Checksum(AccountId)}

NextFanIn ==
    \/ \E a \in FanInAddresses, f \in 1..2, s \in Steps :
          FanOut(a, f, QueryHead, s)
    \/ \E name \in Names(ChainRequests) : Settle(name)
    \/ Continue

SpecFanIn == InitFanIn /\ [][NextFanIn]_vars

\* C18: the fold of the chain path starts only after all six sub-requests of
\* the second Promise.all have completed, and the returned ledger is the one
\* of the sub-requests' answers taken by position, whatever order they and
\* the chunk requests inside each stream completed in: it equals the result
\* computed from the ledger in one step.
C18_FanIn ==
    /\ (call /= NoCall /\ call.stage = "awaiting") =>
          (result = NoResult /\ fold = <<>>)
    /\ (call /= NoCall /\ call.stage = "returned") =>
          /\ Landed(settled) = Names(ChainRequests)
          /\ result = ChainReturn(ChainRun(log, call.address, call.fromBlock,
                                           call.toBlock, call.step),
                                  call.fromBlock, call.toBlock, FALSE,
                                  call.includeZeroRebases,
                                  call.includeOnlyRebases)

\* A call returned a non-empty ledger after its event streams completed
\* before its reads, the rebase stream first and with its later chunk ahead
\* of its earlier one.
C18_Witness ==
    /\ call /= NoCall
    /\ call.stage = "returned"
    /\ settled[1].name = "TokenRebased"
    /\ Len(settled[1].answer) = 2
    /\ settled[1].answer[1].blockNumber > settled[1].answer[2].blockNumber
    /\ settled[2].name = "TransferShares(to)"
    /\ settled[6].name = "sharesOf"
    /\ result.status = "ok"
    /\ Len(result.rewards) >= 2


\* ---------------------------------------------------------------------
\* A data source that answers with an event of another kind
\* ---------------------------------------------------------------------

\* A log that is neither TransferShares nor TokenRebased.
AlienLog(blockNumber, logIndex) ==
    [eventName |-> "Transfer",
     args |-> [from |-> Checksum(OtherId), to |-> Checksum(AccountId),
               value |-> 100],
     blockNumber |-> blockNumber, logIndex |-> logIndex]

\* An entity with neither a 'value' nor an 'apr' field.
AlienEntity(block, logIndex) ==
    [id |-> <<>>, block |-> Dec(block), logIndex |-> Dec(logIndex)]

\* The blocks an answer may carry an event of another kind in: none, or one
\* block of the range.
IntruderBlocks(fromBlock, toBlock) ==
    {<<>>} \cup {<<b>> : b \in fromBlock..toBlock}

InitIntruded ==
    /\ log \in FanInLedgers
    /\ head = QueryHead
    /\ logIdx = 0
    /\ call = NoCall
    /\ fold = <<>>
    /\ result = NoResult
    /\ InitSession

\* getRewardsFromChain, one of the three event streams answering with the
\* events of another kind of the blocks `at` after its own.
ChainIntruded(address, fromBlock, toBlock, step, stream, at) ==
    /\ call = NoCall
    /\ earliestRebaseEventBlock <= fromBlock
    /\ fromBlock <= toBlock
    /\ \E intruder \in {[i \in 1..Len(at) |-> AlienLog(at[i], 1)]} :
       \E run \in {ChainRunOn(
                      [ChainAnswers(log, address, fromBlock, toBlock, step)
                          EXCEPT ![stream] = @ \o intruder],
                      address)} :
       \E includeZeroRebases \in BOOLEAN, includeOnlyRebases \in BOOLEAN :
          /\ call' = [path |-> "chain", address |-> address,
                      fromBlock |-> fromBlock, toBlock |-> toBlock,
                      includeZeroRebases |-> includeZeroRebases,
                      includeOnlyRebases |-> includeOnlyRebases,
                      stream |-> stream, intruder |-> intruder]
          /\ result' = ChainReturn(run, fromBlock, toBlock, FALSE,
                                   includeZeroRebases, includeOnlyRebases)
          /\ fold' = run.final.rewards
    /\ UNCHANGED <<log, head, logIdx>>
    /\ UNCHANGED session
    /\ UNCHANGED <<withdrawals, playground>>

\* getRewardsFromSubgraph, one of the two entity queries answering with the
\* entities of another kind of the blocks `at` after its own.
SubgraphIntruded(address, fromBlock, toBlock, step, stream, at) ==
    /\ call = NoCall
    /\ fromBlock <= toBlock
    /\ \E intruder \in {[i \in 1..Len(at) |-> AlienEntity(at[i], 1)]} :
       \E run \in {SubgraphRunOn(
                      [SubgraphAnswers(log, head, address, fromBlock, toBlock, step)
                          EXCEPT ![stream] = @ \o intruder],
                      head, address, toBlock)} :
       \E includeZeroRebases \in BOOLEAN, includeOnlyRebases \in BOOLEAN :
          /\ call' = [path |-> "subgraph", address |-> address,
                      fromBlock |-> fromBlock, toBlock |-> toBlock,
                      includeZeroRebases |-> includeZeroRebases,
                      includeOnlyRebases |-> includeOnlyRebases,
                      stream |-> stream, intruder |-> intruder]
          /\ result' = SubgraphReturn(run, head, fromBlock,
                                      includeZeroRebases, includeOnlyRebases)
          /\ fold' = run.final.rewards
    /\ UNCHANGED <<log, head, logIdx>>
    /\ UNCHANGED session
    /\ UNCHANGED <<withdrawals, playground>>

NextIntruded ==
    \/ \E a \in CallerAddresses, f \in 1..2, s \in Steps,
          stream \in {"TransferShares(from)", "TransferShares(to)", "TokenRebased"},
          at \in IntruderBlocks(1, QueryHead) :
           ChainIntruded(a, f, QueryHead, s, stream, at)
    \/ \E a \in CallerAddresses, f \in 1..2, s \in Steps,
          stream \in {"transfers", "rebases"},
          at \in IntruderBlocks(1, QueryHead) :
           SubgraphIntruded(a, f, QueryHead, s, stream, at)

SpecIntruded == InitIntruded /\ [][NextIntruded]_vars

\* The call in `call` was given an event of another kind.
Intruded == call /= NoCall /\ call.intruder /= <<>>

\* The record r is that of an event the sort puts before the event of
\* another kind.
BeforeIntruder(r) ==
    IF call.path = "chain"
    THEN ChainCompare(r.originalEvent, call.intruder[1]) < 0
    ELSE SubgraphCompare(r.originalEvent, call.intruder[1]) < 0

\* C19: when the merged stream of either path contains an event that is
\* neither a transfer nor a rebase, the call ends in an invariant failure
\* and returns no ledger; the fold stops at that event, which gets no record
\* and is not passed over (a call without such an event returns a ledger).
C19_ImpossibleEvent ==
    call /= NoCall =>
       IF call.intruder /= <<>>
       THEN /\ result = [status |-> "INVARIANT"]
            /\ \A i \in 1..Len(fold) :
                  /\ fold[i].originalEvent /= call.intruder[1]
                  /\ BeforeIntruder(fold[i])
       ELSE result.status = "ok"

\* A chain call whose rebase stream carried an event of another kind in block
\* 2 failed after the fold had produced a record, a later event pending.
C19_Witness ==
    /\ Intruded
    /\ call.path = "chain"
    /\ call.stream = "TokenRebased"
    /\ call.intruder[1].blockNumber = 2
    /\ fold /= <<>>
    /\ result.status = "INVARIANT"


\* ---------------------------------------------------------------------
\* One record per transfer log
\* ---------------------------------------------------------------------

\* The TransferShares logs of the range of the call that involve its account.
InvolvedLogs ==
    SelectSeq(log, LAMBDA e : /\ e.eventName = "TransferShares"
                              /\ call.fromBlock <= e.blockNumber
                              /\ e.blockNumber <= call.toBlock
                              /\ \/ e.args.from.id = call.address.id
                                 \/ e.args.to.id = call.address.id)

\* C20: in getRewardsFromChain every TransferShares log of [fromBlock,
\* toBlock] that involves the account has exactly one record in the
\* unfiltered sequence, a log from the account to itself included, and no
\* (blockNumber, logIndex) key occurs twice among the records.
C20_OneRecordPerLog ==
    (call /= NoCall /\ call.path = "chain" /\ result.status = "ok") =>
       /\ \A k \in 1..Len(InvolvedLogs) :
             Cardinality({i \in 1..Len(fold) :
                             fold[i].originalEvent = InvolvedLogs[k]}) = 1
       /\ \A i, j \in 1..Len(fold) :
             (/\ fold[i].originalEvent.blockNumber = fold[j].originalEvent.blockNumber
              /\ fold[i].originalEvent.logIndex = fold[j].originalEvent.logIndex)
                => i = j


\* ---------------------------------------------------------------------
\* claims C21 .. C25
\* ---------------------------------------------------------------------

\* C21: every ledger returned by getRewardsFromChain or
\* getRewardsFromSubgraph has fromBlock <= toBlock, also when the subgraph's
\* lastIndexedBlock is lower than the requested fromBlock.
C21_RangeOrdered ==
    (call /= NoCall /\ result.status = "ok") =>
        result.fromBlock <= result.toBlock


\* C22: in the unfiltered sequence of both paths every rebase record's
\* balance is the balance of the record right before it (baseBalance for the
\* first record) plus its own change; so when the range holds no transfer
\* the last record's balance is baseBalance + totalRewards.
C22_RebaseBalance ==
    Returned =>
       /\ \A i \in 1..Len(fold) :
             fold[i].type = "rebase" =>
                fold[i].balance =
                    BalanceBefore(fold, i, result.baseBalance) + fold[i].change
       /\ (fold /= <<>> /\ \A i \in 1..Len(fold) : fold[i].type = "rebase") =>
             fold[Len(fold)].balance = result.baseBalance + result.totalRewards

\* A subgraph ledger whose fold has a rebase of non-zero change right after
\* a transfer that left the account with a balance.
C22_Witness ==
    /\ Returned /\ OnSubgraph
    /\ Len(fold) >= 2
    /\ fold[1].type /= "rebase"
    /\ fold[1].balance > 0
    /\ fold[2].type = "rebase"
    /\ fold[2].change /= 0


\* ---------------------------------------------------------------------
\* LidoSDKWithdrawRequestsInfo: the withdrawal queue and its utilities
\* ---------------------------------------------------------------------

\* The most withdrawal requests the account makes.
MaxRequests == 2

\* RequestStatusWithId of a new request: ids count up from 1.
NewRequest(id) ==
    [id |-> id, amountOfStETH |-> 100 * id,
     isFinalized |-> FALSE, isClaimed |-> FALSE]

\* Sum of amountOfStETH over a list of requests.
RECURSIVE SumStETH(_)
SumStETH(requests) ==
    IF requests = <<>> THEN 0
    ELSE requests[1].amountOfStETH + SumStETH(Tail(requests))

\* The rewards calls are idle while the withdrawal utilities run.
InitRewardsIdle ==
    /\ log = <<>>
    /\ head = earliestRebaseEventBlock
    /\ logIdx = 0
    /\ call = NoCall
    /\ fold = <<>>
    /\ result = NoResult
    /\ now = Epoch
    /\ io = <<>>
    /\ prev = NoResult
    /\ settled = NoAnswers

\* The account asks for a withdrawal.
RequestWithdrawal ==
    /\ Len(queue) < MaxRequests
    /\ queue' = Append(queue, NewRequest(Len(queue) + 1))
    /\ UNCHANGED <<info, rewardsCall, session, playground>>

\* The queue is finalized up to request lastId: every request up to it
\* becomes finalized.
Finalize(lastId) ==
    /\ lastId \in 1..Len(queue)
    /\ ~queue[lastId].isFinalized
    /\ queue' = [id \in 1..Len(queue) |->
                    IF id <= lastId THEN [queue[id] EXCEPT !.isFinalized = TRUE]
                    ELSE queue[id]]
    /\ UNCHANGED <<info, rewardsCall, session, playground>>

\* The account claims a finalized request.
ClaimWithdrawal(id) ==
    /\ id \in 1..Len(queue)
    /\ queue[id].isFinalized
    /\ ~queue[id].isClaimed
    /\ queue' = [queue EXCEPT ![id].isClaimed = TRUE]
    /\ UNCHANGED <<info, rewardsCall, session, playground>>

\* getWithdrawalRequestsStatus: the statuses of the account's requests, as
\* the queue q has them.
getWithdrawalRequestsStatus(q) == q

\* getClaimableRequestsInfo: the finalized, unclaimed requests and the sum
\* of their amounts.
getClaimableRequestsInfo(q) ==
    LET claimable == SelectSeq(getWithdrawalRequestsStatus(q),
                               LAMBDA request : request.isFinalized /\ ~request.isClaimed)
    IN [claimableRequests |-> claimable,
        claimableAmountStETH |-> SumStETH(claimable)]

\* getPendingRequestsInfo: the requests neither finalized nor claimed and
\* the sum of their amounts.
getPendingRequestsInfo(q) ==
    LET pending == SelectSeq(getWithdrawalRequestsStatus(q),
                             LAMBDA request : ~request.isFinalized /\ ~request.isClaimed)
    IN [pendingRequests |-> pending,
        pendingAmountStETH |-> SumStETH(pending)]

\* bus.views.findCheckpointHints: one hint per id (opaque to the caller).
findCheckpointHints(sortedIds) == [i \in 1..Len(sortedIds) |-> 1]

\* bus.views.getClaimableEther: per id, the ether the request can be claimed
\* for: its amount when it is finalized and unclaimed, otherwise 0.
getClaimableEther(q, sortedIds, hints) ==
    [i \in 1..Len(sortedIds) |->
        IF /\ sortedIds[i] \in 1..Len(q)
           /\ q[sortedIds[i]].isFinalized
           /\ ~q[sortedIds[i]].isClaimed
        THEN q[sortedIds[i]].amountOfStETH ELSE 0]

\* ethByRequests.reduce((acc, eth) => acc + eth, BigInt(0))
RECURSIVE SumEth(_)
SumEth(ethByRequests) ==
    IF ethByRequests = <<>> THEN 0
    ELSE ethByRequests[1] + SumEth(Tail(ethByRequests))

\* requests.map((req) => req.id).sort((aReq, bReq) => (aReq > bReq ? 1 : -1))
\* over the distinct ids of the queue.
SortIds(ids) ==
    LET S == {ids[i] : i \in 1..Len(ids)}
    IN [i \in 1..Len(ids) |->
           CHOOSE x \in S : Cardinality({y \in S : y < x}) = i - 1]

\* getClaimableRequestsETHByAccount
getClaimableRequestsETHByAccount(q) ==
    LET requests == getWithdrawalRequestsStatus(q)
        sortedIds == SortIds([i \in 1..Len(requests) |-> requests[i].id])
        hints == findCheckpointHints(sortedIds)
        ethByRequests == getClaimableEther(q, sortedIds, hints)
    IN [ethByRequests |-> ethByRequests, ethSum |-> SumEth(ethByRequests),
        hints |-> hints, requests |-> requests, sortedIds |-> sortedIds]

InitWithdrawalsInfo ==
    /\ InitRewardsIdle
    /\ InitWithdrawals
    /\ InitPlayground

\* getWithdrawalRequestsInfo is called and its first fetch is answered:
\* claimableInfo is that of the queue as it is now.  `known` are the ids of
\* the requests that exist when the call starts.
GetWithdrawalRequestsInfo ==
    /\ info = NoInfo
    /\ info' = [method |-> "getWithdrawalRequestsInfo", awaiting |-> "claimableETH",
                known |-> 1..Len(queue),
                claimableInfo |-> getClaimableRequestsInfo(queue)]
    /\ UNCHANGED <<queue, rewardsCall, session, playground>>

\* The second fetch is answered.
AnswerClaimableETH ==
    /\ info /= NoInfo
    /\ info.method = "getWithdrawalRequestsInfo"
    /\ info.awaiting = "claimableETH"
    /\ info' = [method |-> info.method, awaiting |-> "pendingInfo",
                known |-> info.known,
                claimableInfo |-> info.claimableInfo,
                claimableETH |-> getClaimableRequestsETHByAccount(queue)]
    /\ UNCHANGED <<queue, rewardsCall, session, playground>>

\* The third fetch is answered and the call returns.
AnswerPendingInfo ==
    /\ info /= NoInfo
    /\ info.method = "getWithdrawalRequestsInfo"
    /\ info.awaiting = "pendingInfo"
    /\ info' = [method |-> info.method, awaiting |-> "nothing",
                known |-> info.known,
                claimableInfo |-> info.claimableInfo,
                claimableETH |-> info.claimableETH,
                pendingInfo |-> getPendingRequestsInfo(queue)]
    /\ UNCHANGED <<queue, rewardsCall, session, playground>>

NextWithdrawalsInfo ==
    \/ RequestWithdrawal
    \/ \E lastId \in 1..MaxRequests : Finalize(lastId)
    \/ \E id \in 1..MaxRequests : ClaimWithdrawal(id)
    \/ GetWithdrawalRequestsInfo
    \/ AnswerClaimableETH
    \/ AnswerPendingInfo

SpecWithdrawalsInfo == InitWithdrawalsInfo /\ [][NextWithdrawalsInfo]_vars

\* getWithdrawalRequestsInfo has returned.
InfoReturned ==
    /\ info /= NoInfo
    /\ info.method = "getWithdrawalRequestsInfo"
    /\ info.awaiting = "nothing"

\* The request id is in the list of requests.
Listed(id, requests) == \E i \in 1..Len(requests) : requests[i].id = id

\* C23: in the result of getWithdrawalRequestsInfo every request of the
\* account that exists when the call starts and is unclaimed to this day is
\* in exactly one of claimableInfo.claimableRequests and
\* pendingInfo.pendingRequests, also when it was finalized between the
\* fetches; no request is in both.
C23_ExactlyOneList ==
    InfoReturned =>
       \A id \in info.known :
          /\ ~queue[id].isClaimed =>
                \/ Listed(id, info.claimableInfo.claimableRequests)
                \/ Listed(id, info.pendingInfo.pendingRequests)
          /\ ~(/\ Listed(id, info.claimableInfo.claimableRequests)
               /\ Listed(id, info.pendingInfo.pendingRequests))


\* ---------------------------------------------------------------------
\* The Action component of the playground
\* ---------------------------------------------------------------------

\* The most runs of startLoading (clicks of the button).
MaxRuns == 2

\* What action() may resolve to (a value, or undefined) and what it may
\* throw.
Results == {<<>>, <<"address">>, <<"ledger">>}
Errors == {<<"SDKError">>, <<"TypeError">>}

\* The ReducerAction values, each as the one-element sequence a defined
\* argument is; the absent action is the empty sequence, and "refresh" is a
\* type the reducer does not know.
Loading == <<[type |-> "loading"]>>
Error(error) == <<[type |-> "error", error |-> error]>>
Success(r) == <<[type |-> "success", result |-> r]>>
Reset == <<[type |-> "reset"]>>
Absent == <<>>
Unrecognized == <<[type |-> "refresh"]>>
ReducerActions ==
    {Loading, Reset, Absent, Unrecognized}
        \cup {Error(e) : e \in Errors} \cup {Success(r) : r \in Results}

\* Variant of reducer whose 'error' case spreads the old state.
reducer_ErrorKeepsResult(st, action) ==
    IF action = <<>> THEN st
    ELSE CASE action[1].type = "loading" ->
                [error |-> <<>>, result |-> <<>>, loading |-> TRUE]
           [] action[1].type = "error" ->
                [error |-> action[1].error, result |-> st.result, loading |-> FALSE]
           [] action[1].type = "success" ->
                [error |-> <<>>, result |-> action[1].result, loading |-> FALSE]
           [] action[1].type = "reset" ->
                [error |-> <<>>, result |-> <<>>, loading |-> FALSE]
           [] OTHER -> st

\* reducer(state, action): switch (action?.type)
reducer(st, action) ==
    IF action = <<>> THEN st
    ELSE CASE action[1].type = "loading" ->
                [error |-> <<>>, result |-> <<>>, loading |-> TRUE]
           [] action[1].type = "error" ->
                [error |-> action[1].error, result |-> <<>>, loading |-> FALSE]
           [] action[1].type = "success" ->
                [error |-> <<>>, result |-> action[1].result, loading |-> FALSE]
           [] action[1].type = "reset" ->
                [error |-> <<>>, result |-> <<>>, loading |-> FALSE]
           [] OTHER -> st

InitAction ==
    /\ InitRewardsIdle
    /\ InitWithdrawals
    /\ InitPlayground

\* dispatch(action) from anywhere.
Dispatch(action) ==
    /\ state' = reducer(state, action)
    /\ UNCHANGED <<runs, rewardsCall, session, withdrawals>>

\* startLoading up to its await: 'loading' is dispatched and action() is
\* called.  A run keeps what it has dispatched and the state its last
\* dispatch left.
StartLoading ==
    /\ Len(runs) < MaxRuns
    /\ state' = reducer(state, Loading)
    /\ runs' = Append(runs, [dispatched |-> <<"loading">>, awaiting |-> TRUE,
                             left |-> state'])
    /\ UNCHANGED <<rewardsCall, session, withdrawals>>

\* action() of run i resolves to r: startLoading resumes after the await.
Resolve(i, r) ==
    /\ i \in 1..Len(runs)
    /\ runs[i].awaiting
    /\ state' = reducer(state, Success(r))
    /\ runs' = [runs EXCEPT ![i] = [dispatched |-> Append(@.dispatched, "success"),
                                    awaiting |-> FALSE, left |-> state']]
    /\ UNCHANGED <<rewardsCall, session, withdrawals>>

\* action() of run i throws e: startLoading resumes in its catch block.
Throw(i, e) ==
    /\ i \in 1..Len(runs)
    /\ runs[i].awaiting
    /\ state' = reducer(state, Error(e))
    /\ runs' = [runs EXCEPT ![i] = [dispatched |-> Append(@.dispatched, "error"),
                                    awaiting |-> FALSE, left |-> state']]
    /\ UNCHANGED <<rewardsCall, session, withdrawals>>

NextAction ==
    \/ \E action \in ReducerActions : Dispatch(action)
    \/ StartLoading
    \/ \E i \in 1..MaxRuns, r \in Results : Resolve(i, r)
    \/ \E i \in 1..MaxRuns, e \in Errors : Throw(i, e)

SpecAction == InitAction /\ [][NextAction]_vars

\* C24: after any sequence of actions error and result are never both
\* defined, and while loading is true both are undefined; an absent or
\* unrecognized action leaves the state as it is; every run of startLoading
\* dispatches 'loading' first and then, once action() has settled, exactly
\* one of 'success' and 'error', which leaves loading false.
C24_ReducerInvariant ==
    /\ ~(state.error /= <<>> /\ state.result /= <<>>)
    /\ state.loading => (state.error = <<>> /\ state.result = <<>>)
    /\ reducer(state, Absent) = state
    /\ reducer(state, Unrecognized) = state
    /\ \A i \in 1..Len(runs) :
          /\ runs[i].dispatched[1] = "loading"
          /\ IF runs[i].awaiting
             THEN runs[i].dispatched = <<"loading">> /\ runs[i].left.loading
             ELSE /\ Len(runs[i].dispatched) = 2
                  /\ runs[i].dispatched[2] \in {"success", "error"}
                  /\ ~runs[i].left.loading

\* A run that resolved to a value was followed by a run that threw: the
\* error is shown and the earlier result is gone.
C24_Witness ==
    /\ Len(runs) = 2
    /\ runs[1].dispatched = <<"loading", "success">>
    /\ runs[1].left.result /= <<>>
    /\ runs[2].dispatched = <<"loading", "error">>
    /\ state = runs[2].left
    /\ state.error /= <<>>


\* ---------------------------------------------------------------------
\* getClaimableRequestsETHByIds
\* ---------------------------------------------------------------------

\* An element of claimableRequestsIds: a plain bigint id, or a
\* RequestStatusWithId object (of which only id is read).
PlainId(id) == [kind |-> "bigint", id |-> id]
StatusWithId(id) == [kind |-> "object", id |-> id]
isBigint(req) == req.kind = "bigint"

\* The comparator given to claimableRequestsIds.sort.
CompareRequests(aReq, bReq) ==
    IF isBigint(aReq) /\ isBigint(bReq) THEN (IF aReq.id > bReq.id THEN 1 ELSE -1)
    ELSE IF ~isBigint(aReq) /\ ~isBigint(bReq)
         THEN (IF aReq.id > bReq.id THEN 1 ELSE -1)
    ELSE 0

\* The arrangements of n positions.
Arrangements(n) ==
    {p \in [1..n -> 1..n] : \A i, j \in 1..n : p[i] = p[j] => i = j}

\* The comparator is a consistent one for the elements of list (taken at
\* distinct positions): the two ways round agree, and "before" and "equal"
\* are transitive.
ConsistentComparator(list) ==
    LET n == Len(list)
        c(i, j) == CompareRequests(list[i], list[j])
        Distinct(i, j, k) == i /= j /\ j /= k /\ i /= k
    IN /\ \A i, j \in 1..n :
             i /= j => /\ (c(i, j) < 0) = (c(j, i) > 0)
                       /\ (c(i, j) = 0) = (c(j, i) = 0)
       /\ \A i, j, k \in 1..n :
             Distinct(i, j, k) =>
                /\ (c(i, j) < 0 /\ c(j, k) < 0) => c(i, k) < 0
                /\ (c(i, j) = 0 /\ c(j, k) = 0) => c(i, k) = 0

\* Array.prototype.sort with that comparator: with a consistent comparator
\* the elements end in comparator order, equal ones in their old order; with
\* an inconsistent one the order is left to the implementation.
SortRequests(list) ==
    LET n == Len(list)
        Sorted(p) ==
            \A j, k \in 1..n :
               j < k => LET c == CompareRequests(list[p[j]], list[p[k]])
                        IN c < 0 \/ (c = 0 /\ p[j] < p[k])
    IN {[i \in 1..n |-> list[p[i]]] :
           p \in IF ConsistentComparator(list)
                 THEN {q \in Arrangements(n) : Sorted(q)}
                 ELSE Arrangements(n)}

\* getClaimableRequestsETHByIds, `sorted` being what sort left in the array.
getClaimableRequestsETHByIds(q, sorted) ==
    LET sortedIds == [i \in 1..Len(sorted) |-> sorted[i].id]
        hints == findCheckpointHints(sortedIds)
        ethByRequests == getClaimableEther(q, sortedIds, hints)
    IN [ethByRequests |-> ethByRequests, ethSum |-> SumEth(ethByRequests),
        hints |-> hints, sortedIds |-> sortedIds]

\* The lists a caller passes: up to three requests of distinct ids, each as
\* a plain id or as an object.
ClaimableRequestsIds ==
    LET Items == {PlainId(id) : id \in 1..3} \cup {StatusWithId(id) : id \in 1..3}
    IN UNION {{list \in [1..n -> Items] :
                  \A i, j \in 1..n : list[i].id = list[j].id => i = j} :
              n \in 0..3}

\* The queue the utilities read: three requests, none, the first or the
\* first two of them finalized.
ClaimQueues ==
    {[id \in 1..3 |-> [NewRequest(id) EXCEPT !.isFinalized = (id <= last)]] :
        last \in 0..2}

InitClaimable ==
    /\ InitRewardsIdle
    /\ queue \in ClaimQueues
    /\ info = NoInfo
    /\ InitPlayground

\* A caller invokes getClaimableRequestsETHByIds.
GetClaimableRequestsETHByIds(claimableRequestsIds) ==
    /\ info = NoInfo
    /\ \E sorted \in SortRequests(claimableRequestsIds) :
          \E answer \in {getClaimableRequestsETHByIds(queue, sorted)} :
             info' = [method |-> "getClaimableRequestsETHByIds",
                      claimableRequestsIds |-> claimableRequestsIds,
                      sortedIds |-> answer.sortedIds,
                      hints |-> answer.hints,
                      ethByRequests |-> answer.ethByRequests,
                      ethSum |-> answer.ethSum]
    /\ UNCHANGED <<queue, rewardsCall, session, playground>>

\* A caller invokes getClaimableRequestsETHByAccount.
GetClaimableRequestsETHByAccount ==
    /\ info = NoInfo
    /\ \E answer \in {getClaimableRequestsETHByAccount(queue)} :
          info' = [method |-> "getClaimableRequestsETHByAccount",
                   claimableRequestsIds |-> answer.requests,
                   sortedIds |-> answer.sortedIds,
                   hints |-> answer.hints,
                   ethByRequests |-> answer.ethByRequests,
                   ethSum |-> answer.ethSum]
    /\ UNCHANGED <<queue, rewardsCall, session, playground>>

NextClaimable ==
    \/ \E list \in ClaimableRequestsIds : GetClaimableRequestsETHByIds(list)
    \/ GetClaimableRequestsETHByAccount

SpecClaimable == InitClaimable /\ [][NextClaimable]_vars

\* C25: the sortedIds that getClaimableRequestsETHByIds passes on are in
\* ascending order and are the ids of the input in some order, for every
\* input list, lists that mix plain ids and objects included; ethSum is the
\* sum of ethByRequests.
C25_SortedIds ==
    (info /= NoInfo /\ info.method = "getClaimableRequestsETHByIds") =>
       /\ \A i, j \in 1..Len(info.sortedIds) :
             i < j => info.sortedIds[i] < info.sortedIds[j]
       /\ Len(info.sortedIds) = Len(info.claimableRequestsIds)
       /\ {info.sortedIds[i] : i \in 1..Len(info.sortedIds)}
             = {info.claimableRequestsIds[i].id :
                   i \in 1..Len(info.claimableRequestsIds)}
       /\ info.ethSum = SumEth(info.ethByRequests)

=============================================================================
